---- MODULE Spec2Model ----
(***************************************************************************)
(* Order and identifier reconciliation layer of the OKX gateway            *)
(* (vnpy/okx/okx_gateway.py): local order id allocation, the local/remote  *)
(* identifier maps, the order cache of OkxGateway, and the handlers of the *)
(* REST, private and business channels that feed them.                     *)
(*                                                                         *)
(* Strings of the program are TLA+ strings; a Python dict is a function    *)
(* with a finite domain; a handler is an operator from the gateway state   *)
(* (a record, see Cur) to the gateway state after the handler returned or  *)
(* raised.                                                                 *)
(***************************************************************************)
EXTENDS Integers, Sequences, FiniteSets, TLC

VARIABLES
    order_count,                    \* OkxGateway.order_count
    order_count_lock,               \* OkxGateway.order_count_lock: holder or NoThread
    rest_connect_time,              \* OkxRestApi.connect_time (as a string)
    ws_connect_time,                \* OkxWebsocketPrivateApi.connect_time
    reqid,                          \* OkxWebsocketPrivateApi.reqid
    reqid_order_map,                \* OkxWebsocketPrivateApi.reqid_order_map
    local_orderids,                 \* module global local_orderids
    local_remote_orderid_map,       \* module global local_remote_orderid_map
    remote_local_algo_orderid_map,  \* module global remote_local_algo_orderid_map
    symbol_contract_map,            \* module global symbol_contract_map
    support_margin_spot_symbols,    \* module global support_margin_spot_symbols
    orders,                         \* OkxGateway.orders
    ws_requests,                    \* order requests in flight on the private channel, by id
    rest_requests,                  \* stop-order requests in flight on REST (Request.extra)
    submitting,                     \* orders whose submit call sent the request and has not
                                    \* yet handed the order to OkxGateway.on_order
    last_ping_timestamp,            \* OkxGateway.last_ping_timestamp
    clock,                          \* datetime.now().timestamp(), in seconds
    ws_open,                        \* per channel: whether the API object has a socket (_ws)
    ws_connects,                    \* history: per channel, the connections made so far
    login_pending,                  \* per channel: a login request awaits its acknowledgement
    subscribed,                     \* OkxWebsocketPublicApi.subscribed, in insertion order
    ticks,                          \* OkxWebsocketPublicApi.ticks
    requested,                      \* history: the symbols of the caller's subscribe calls
    symbol_gateway_map,             \* RpcGateway.symbol_gateway_map
    pc,                             \* per caller thread: position inside _new_order_id
    loaded,                         \* per caller thread: value read by order_count += 1
    ret,                            \* per caller thread: value returned by _new_order_id
    api,                            \* per caller thread: the API whose send the thread runs
    allocated,                      \* history: the order ids built so far, with their thread
    bound_regular,                  \* history: first remote id bound per local id, regular space
    bound_stop,                     \* history: first remote id bound per local id, stop space
    known_offset,                   \* history: first known offset an update carried, per order id
    emitted,                        \* events pushed to the engine by the last handler
    sent,                           \* frames and requests sent by the last handler
    binds,                          \* identifier binds made by the last handler
    raised,                         \* whether the last handler ended by an exception
    returned,                       \* what the last handler returned to its caller ("" for None)
    last,                           \* the last handler and its input
    steps                           \* number of handlers run so far

vars == << order_count, order_count_lock, rest_connect_time, ws_connect_time, reqid,
           reqid_order_map, local_orderids, local_remote_orderid_map,
           remote_local_algo_orderid_map, symbol_contract_map,
           support_margin_spot_symbols, orders, ws_requests, rest_requests, submitting,
           pc, loaded, ret, api, allocated, bound_regular, bound_stop, known_offset, emitted,
           sent, binds, raised, returned, last, steps, last_ping_timestamp, clock, ws_open,
           ws_connects, login_pending, subscribed, ticks, requested, symbol_gateway_map >>

chanVars == << last_ping_timestamp, clock, ws_open, ws_connects, login_pending, subscribed,
               ticks, requested, symbol_gateway_map >>

allocVars == << order_count, order_count_lock, pc, loaded, ret, api, allocated >>

idVars == << local_orderids, local_remote_orderid_map, remote_local_algo_orderid_map,
             bound_regular, bound_stop >>

ioVars == << emitted, sent, binds, raised, returned, last, steps >>

(***************************************************************************)
(* Bounds of the model.                                                    *)
(***************************************************************************)
MaxAllocs == 4      \* calls of _new_order_id explored by SpecAlloc
MaxOrders == 2      \* orders submitted by the caller in the handler specifications
MaxSteps == 3       \* handlers run in one behaviour of the handler specifications
MaxItems == 2       \* items in the data list of one vendor frame
MaxBatch == 37      \* requests in one call of cancel_orders
MaxSessionSteps == 5    \* handlers run in one behaviour of the session specification
MaxTime == 4            \* bar times the server knows
MaxPrefix == 2          \* pages a script lists before its tail
MaxQueries == 1         \* history queries in one behaviour
MaxRequests == 3        \* cancel requests in one batch given to the relay gateway
MaxRelaySteps == 2      \* handlers run in one behaviour of the relay specification

Channels == {"public", "private", "business"}
StartTime == 100

Threads == {"t1", "t2"}
NoThread == "none"
NotFound == "<not-found>"
ConnectTimes == {"261104011900", "261104011901"}

(***************************************************************************)
(* Python dict and str helpers.                                            *)
(***************************************************************************)
EmptyDict == [k \in {} |-> ""]

Put(d, k, v) == [x \in (DOMAIN d) \cup {k} |-> IF x = k THEN v ELSE d[x]]

Get(d, k, default) == IF k \in DOMAIN d THEN d[k] ELSE default

RECURSIVE DictOf(_)
\* dict(pairs): a later pair with the same key wins
DictOf(pairs) ==
    IF pairs = << >> THEN EmptyDict
    ELSE LET n == Len(pairs) IN Put(DictOf(SubSeq(pairs, 1, n - 1)), pairs[n][1], pairs[n][2])

\* {v: k for k, v in d.items()}
Invert(pairs) == DictOf([i \in 1..Len(pairs) |-> << pairs[i][2], pairs[i][1] >>])

RECURSIVE rjust(_, _, _)
\* str.rjust(width, fill)
rjust(s, width, fill) == IF Len(s) >= width THEN s ELSE rjust(fill \o s, width, fill)

(***************************************************************************)
(* The lookup tables of the module, in source order.                       *)
(***************************************************************************)
STATUS_OKX2VT_items ==
    << <<"live", "NOTTRADED">>, <<"partially_filled", "PARTTRADED">>,
       <<"filled", "ALLTRADED">>, <<"canceled", "CANCELLED">> >>

STATUS_OKX2VT == DictOf(STATUS_OKX2VT_items)

ORDERTYPE_OKX2VT_items ==
    << <<"limit", "LIMIT">>, <<"market", "MARKET">>, <<"stop", "STOP">>,
       <<"fok", "FOK">>, <<"ioc", "FAK">> >>

ORDERTYPE_OKX2VT == DictOf(ORDERTYPE_OKX2VT_items)

ORDERTYPE_VT2OKX == Invert(ORDERTYPE_OKX2VT_items)

DIRECTION_OKX2VT_items == << <<"buy", "LONG">>, <<"sell", "SHORT">> >>

DIRECTION_OKX2VT == DictOf(DIRECTION_OKX2VT_items)

DIRECTION_VT2OKX == Invert(DIRECTION_OKX2VT_items)

PRODUCT_OKX2VT_items ==
    << <<"SWAP", "FUTURES">>, <<"SPOT", "SPOT">>, <<"FUTURES", "FUTURES">> >>

PRODUCT_OKX2VT == DictOf(PRODUCT_OKX2VT_items)

PRODUCT_VT2OKX == Invert(PRODUCT_OKX2VT_items)

(***************************************************************************)
(* Local order ids.                                                        *)
(***************************************************************************)
IdWidth == 6

\* str(self.order_count).rjust(6, "0")
FormatCount(n) == rjust(ToString(n), IdWidth, "0")

\* f"{self.connect_time}{self.gateway._new_order_id()}"
MakeOrderId(connect_time, counter) == connect_time \o counter

ConnectTimeOf(a) == IF a = "rest" THEN rest_connect_time ELSE ws_connect_time

(***************************************************************************)
(* Initial state: the gateway constructed and connected, the instrument    *)
(* query answered, no order yet.                                           *)
(***************************************************************************)
Contracts ==
    [x \in {"BTC-USDT", "BTC-USDT-SWAP"} |->
        IF x = "BTC-USDT" THEN [symbol |-> x, product |-> "SPOT"]
        ELSE [symbol |-> x, product |-> "FUTURES"]]

InitCommon ==
    /\ order_count = 0
    /\ order_count_lock = NoThread
    /\ reqid = 0
    /\ reqid_order_map = EmptyDict
    /\ local_orderids = {}
    /\ local_remote_orderid_map = EmptyDict
    /\ remote_local_algo_orderid_map = EmptyDict
    /\ symbol_contract_map = Contracts
    /\ support_margin_spot_symbols = {}
    /\ orders = EmptyDict
    /\ ws_requests = EmptyDict
    /\ rest_requests = {}
    /\ submitting = {}
    /\ last_ping_timestamp = 0
    /\ clock = StartTime
    /\ ws_open = [ch \in Channels |-> FALSE]
    /\ ws_connects = [ch \in Channels |-> 0]
    /\ login_pending = [ch \in Channels |-> FALSE]
    /\ subscribed = << >>
    /\ ticks = EmptyDict
    /\ requested = << >>
    /\ symbol_gateway_map = EmptyDict
    /\ pc = [t \in Threads |-> "idle"]
    /\ loaded = [t \in Threads |-> 0]
    /\ ret = [t \in Threads |-> ""]
    /\ api = [t \in Threads |-> "ws"]
    /\ allocated = << >>
    /\ bound_regular = EmptyDict
    /\ bound_stop = EmptyDict
    /\ known_offset = EmptyDict
    /\ emitted = << >>
    /\ sent = << >>
    /\ binds = << >>
    /\ raised = FALSE
    /\ returned = ""
    /\ last = [op |-> "idle"]
    /\ steps = 0

Init ==
    /\ InitCommon
    /\ rest_connect_time = "261104011900"
    /\ ws_connect_time = "261104011901"

InitAlloc ==
    /\ InitCommon
    /\ rest_connect_time \in ConnectTimes
    /\ ws_connect_time \in ConnectTimes

(***************************************************************************)
(* OkxGateway._new_order_id, statement by statement, as run by concurrent  *)
(* callers of send_order (private channel) and send_stop_order (REST).     *)
(***************************************************************************)
\* (mutant) the with block entered whether or not another thread holds the lock
CanAcquire_NoExclusion == TRUE

\* with self.order_count_lock: entry is possible only while no thread holds the lock
CanAcquire == order_count_lock = NoThread

\* the state no step of _new_order_id touches
AllocOnly ==
    /\ UNCHANGED << rest_connect_time, ws_connect_time, reqid, reqid_order_map,
                    symbol_contract_map, support_margin_spot_symbols, orders,
                    ws_requests, rest_requests, submitting, known_offset >>
    /\ UNCHANGED idVars
    /\ UNCHANGED ioVars
    /\ UNCHANGED chanVars

CallNewOrderId(t) ==
    /\ pc[t] = "idle"
    /\ Len(allocated) + Cardinality({u \in Threads : pc[u] # "idle"}) < MaxAllocs
    /\ \E a \in {"rest", "ws"} : api' = [api EXCEPT ![t] = a]
    /\ pc' = [pc EXCEPT ![t] = "acquire"]
    /\ UNCHANGED << order_count, order_count_lock, loaded, ret, allocated >>

AcquireLock(t) ==
    /\ pc[t] = "acquire"
    /\ CanAcquire
    /\ order_count_lock' = t
    /\ pc' = [pc EXCEPT ![t] = "load"]
    /\ UNCHANGED << order_count, loaded, ret, api, allocated >>

\* self.order_count += 1: the read of the attribute
LoadCount(t) ==
    /\ pc[t] = "load"
    /\ loaded' = [loaded EXCEPT ![t] = order_count]
    /\ pc' = [pc EXCEPT ![t] = "store"]
    /\ UNCHANGED << order_count, order_count_lock, ret, api, allocated >>

\* self.order_count += 1: the write of the attribute
StoreCount(t) ==
    /\ pc[t] = "store"
    /\ order_count' = loaded[t] + 1
    /\ pc' = [pc EXCEPT ![t] = "format"]
    /\ UNCHANGED << order_count_lock, loaded, ret, api, allocated >>

\* return str(self.order_count).rjust(6, "0"), evaluated inside the with block
FormatAndRelease(t) ==
    /\ pc[t] = "format"
    /\ ret' = [ret EXCEPT ![t] = FormatCount(order_count)]
    /\ order_count_lock' = IF order_count_lock = t THEN NoThread ELSE order_count_lock
    /\ pc' = [pc EXCEPT ![t] = "build"]
    /\ UNCHANGED << order_count, loaded, api, allocated >>

\* orderid = f"{self.connect_time}{...}" in send_order and send_stop_order
BuildOrderId(t) ==
    /\ pc[t] = "build"
    /\ allocated' = Append(allocated,
            [thread |-> t, api |-> api[t],
             orderid |-> MakeOrderId(ConnectTimeOf(api[t]), ret[t])])
    /\ pc' = [pc EXCEPT ![t] = "idle"]
    /\ UNCHANGED << order_count, order_count_lock, loaded, ret, api >>

NextAlloc ==
    \/ \E t \in Threads : CallNewOrderId(t) /\ AllocOnly
    \/ \E t \in Threads : AcquireLock(t) /\ AllocOnly
    \/ \E t \in Threads : LoadCount(t) /\ AllocOnly
    \/ \E t \in Threads : StoreCount(t) /\ AllocOnly
    \/ \E t \in Threads : FormatAndRelease(t) /\ AllocOnly
    \/ \E t \in Threads : BuildOrderId(t) /\ AllocOnly

SpecAlloc == InitAlloc /\ [][NextAlloc]_vars

\* C4: the local order ids built during the process lifetime are pairwise distinct,
\* whatever the interleaving of the callers of send_order and send_stop_order.
C4_AllocatedIdsDistinct ==
    \A i, j \in 1..Len(allocated) :
        i # j => allocated[i].orderid # allocated[j].orderid

\* Callers on different threads got ids with the same connect-time prefix, and a
\* caller is waiting for the lock another one holds.
C4_Witness ==
    \E i, j \in 1..Len(allocated) :
        /\ i < j
        /\ allocated[i].thread # allocated[j].thread
        /\ ConnectTimeOf(allocated[i].api) = ConnectTimeOf(allocated[j].api)
        /\ \E t \in Threads :
                pc[t] = "acquire" /\ order_count_lock \notin {NoThread, t}

(***************************************************************************)
(* Gateway state as the handlers see it.  A handler takes this record and  *)
(* returns it updated; out, sent and binds collect what the handler did.   *)
(***************************************************************************)
Cur ==
    [ lro |-> local_remote_orderid_map,
      rla |-> remote_local_algo_orderid_map,
      lids |-> local_orderids,
      orders |-> orders,
      count |-> order_count,
      reqid |-> reqid,
      reqmap |-> reqid_order_map,
      wsreq |-> ws_requests,
      restreq |-> rest_requests,
      submitting |-> submitting,
      ping |-> last_ping_timestamp,
      now |-> clock,
      open |-> ws_open,
      connects |-> ws_connects,
      pending |-> login_pending,
      subscribed |-> subscribed,
      ticks |-> ticks,
      requested |-> requested,
      gateways |-> symbol_gateway_map,
      contracts |-> symbol_contract_map,
      margin |-> support_margin_spot_symbols,
      alloc |-> allocated,
      breg |-> bound_regular,
      bstop |-> bound_stop,
      known |-> known_offset,
      out |-> << >>,
      sent |-> << >>,
      binds |-> << >>,
      raised |-> FALSE,
      returned |-> "" ]

\* OrderData, with the fields the handlers read or set
OrderData(orderid, symbol, type, direction, offset, status) ==
    [ orderid |-> orderid, symbol |-> symbol, type |-> type, direction |-> direction,
      offset |-> offset, status |-> status ]

\* BaseGateway.on_order / on_trade / write_log: an event put on the engine's queue.
\* item is the index of the frame item being handled (0 outside a loop); given is the
\* offset the update carried when it was handed to OkxGateway.on_order.
OrderEvent(order, item, given) ==
    [ kind |-> "order", item |-> item, data |-> order, given |-> given ]

TradeEvent(trade, item) ==
    [ kind |-> "trade", item |-> item, data |-> trade, given |-> "" ]

LogEvent(msg, item) ==
    [ kind |-> "log", item |-> item, data |-> msg, given |-> "" ]

write_log(st, msg, item) == [st EXCEPT !.out = Append(@, LogEvent(msg, item))]

\* BaseGateway.on_contract / on_account / on_position / on_tick: an event put on the engine's queue
DataEvent(kind, data, item) == [kind |-> kind, item |-> item, data |-> data, given |-> ""]

\* OkxGateway.on_order
Gateway_on_order(order, item, st) ==
    LET cached == order.orderid \in DOMAIN st.orders
        o == IF cached THEN [order EXCEPT !.offset = st.orders[order.orderid].offset]
             ELSE order
    IN  [st EXCEPT !.orders = Put(@, o.orderid, o),
                   !.out = Append(@, OrderEvent(o, item, order.offset)),
                   !.known = IF order.offset # "NONE" /\ order.orderid \notin DOMAIN @
                             THEN Put(@, order.orderid, order.offset) ELSE @]

\* OkxGateway.get_order
get_order(st, orderid) == Get(st.orders, orderid, NotFound)

(***************************************************************************)
(* The identifier registry: the module globals and their readers.          *)
(***************************************************************************)
\* local id -> remote id: both spaces are read from local_remote_orderid_map
ResolveRemote(st, l, stop) == Get(st.lro, l, NotFound)

\* remote id -> local id: remote_local_algo_orderid_map for the stop space; the module
\* keeps no such map for the regular space
ResolveLocal(st, r, stop) == IF stop THEN Get(st.rla, r, NotFound) ELSE NotFound

\* History of one bind: what the two resolutions gave before and after it.
LogBind(pre, post, l, r, stop, item) ==
    [post EXCEPT
        !.breg = IF ~stop /\ l \notin DOMAIN @ THEN Put(@, l, r) ELSE @,
        !.bstop = IF stop /\ l \notin DOMAIN @ THEN Put(@, l, r) ELSE @,
        !.binds = Append(@,
            [ item |-> item, l |-> l, r |-> r, stop |-> stop,
              bound |-> Get(IF stop THEN pre.bstop ELSE pre.breg, l, NotFound),
              other |-> Get(IF stop THEN pre.breg ELSE pre.bstop, l, NotFound),
              fwd_before |-> ResolveRemote(pre, l, stop),
              fwd_after |-> ResolveRemote(post, l, stop),
              rev_before |-> ResolveLocal(pre, r, stop),
              rev_after |-> ResolveLocal(post, r, stop),
              other_before |-> ResolveRemote(pre, l, ~stop),
              other_after |-> ResolveRemote(post, l, ~stop) ])]

\* (mutant) the stop-order bind that forgets the remote -> local direction
BindStopOrder_ForwardOnly(st, l, r) == [st EXCEPT !.lro = Put(@, l, r)]

\* local_remote_orderid_map[l] = r; remote_local_algo_orderid_map[r] = l
BindStopOrder(st, l, r) == [st EXCEPT !.lro = Put(@, l, r), !.rla = Put(@, r, l)]

\* local_remote_orderid_map[l] = r
BindOrder(st, l, r) == [st EXCEPT !.lro = Put(@, l, r)]

(***************************************************************************)
(* Decoding of vendor order payloads.                                      *)
(***************************************************************************)
\* parse_order_data: the state after it, the order it returns, whether it raised
parse_order_data(d, item, st) ==
    LET regular == d.algoId = ""
        s1 == IF regular
              THEN LogBind(st,
                           BindOrder([st EXCEPT !.lids = @ \cup {d.clOrdId}],
                                     d.clOrdId, d.ordId),
                           d.clOrdId, d.ordId, FALSE, item)
              ELSE st
        keyError == \/ ~regular /\ d.algoId \notin DOMAIN st.rla
                    \/ d.ordType \notin DOMAIN ORDERTYPE_OKX2VT
                    \/ d.side \notin DOMAIN DIRECTION_OKX2VT
                    \/ d.state \notin DOMAIN STATUS_OKX2VT
    IN  IF keyError THEN [st |-> s1, raised |-> TRUE, order |-> NotFound]
        ELSE [ st |-> s1, raised |-> FALSE,
               order |-> OrderData(IF regular THEN d.clOrdId ELSE st.rla[d.algoId],
                                   d.instId, ORDERTYPE_OKX2VT[d.ordType],
                                   DIRECTION_OKX2VT[d.side], "NONE",
                                   STATUS_OKX2VT[d.state]) ]

\* convert_status, local to parse_stop_order_data
convert_status(status) ==
    IF status = "live" THEN "NOTTRADED"
    ELSE IF status = "canceled" THEN "CANCELLED"
    ELSE "REJECTED"

\* parse_stop_order_data: none where the function returns None
parse_stop_order_data(d, item, st) ==
    LET named == d.algoClOrdId # ""
        s1 == IF named
              THEN LogBind(st,
                           BindStopOrder([st EXCEPT !.lids = @ \cup {d.algoClOrdId}],
                                         d.algoClOrdId, d.algoId),
                           d.algoClOrdId, d.algoId, TRUE, item)
              ELSE st
        order_id == IF named THEN d.algoClOrdId ELSE d.algoId
    IN  IF d.ordType # "conditional"
        THEN [st |-> s1, raised |-> FALSE, none |-> TRUE, order |-> NotFound]
        ELSE IF d.side \notin DOMAIN DIRECTION_OKX2VT
        THEN [st |-> s1, raised |-> TRUE, none |-> TRUE, order |-> NotFound]
        ELSE [ st |-> s1, raised |-> FALSE, none |-> FALSE,
               order |-> OrderData(order_id, d.instId, "STOP", DIRECTION_OKX2VT[d.side],
                                   "NONE", convert_status(d.state)) ]

(***************************************************************************)
(* Private channel: order pushes and order acknowledgements.               *)
(***************************************************************************)
\* TradeData built in OkxWebsocketPrivateApi.on_order from the order just pushed
TradeData(order, tradeid) ==
    [ orderid |-> order.orderid, symbol |-> order.symbol, tradeid |-> tradeid,
      direction |-> order.direction, offset |-> order.offset ]

RECURSIVE PrivateApi_on_order_loop(_, _, _)
\* the for loop of OkxWebsocketPrivateApi.on_order, from item i on
PrivateApi_on_order_loop(data, i, st) ==
    IF i > Len(data) THEN st
    ELSE LET d == data[i]
             p == parse_order_data(d, i, st)
         IN  IF p.raised THEN [p.st EXCEPT !.raised = TRUE]
             ELSE LET s2 == Gateway_on_order(p.order, i, p.st)
                      order == s2.orders[p.order.orderid]
                  IN  IF d.fillSz = "0" THEN s2
                      ELSE PrivateApi_on_order_loop(data, i + 1,
                              [s2 EXCEPT !.out =
                                  Append(@, TradeEvent(TradeData(order, d.tradeId), i))])

\* OkxWebsocketPrivateApi.on_order
PrivateApi_on_order(packet, st) == PrivateApi_on_order_loop(packet.data, 1, st)

RECURSIVE RestApi_on_query_order_loop(_, _, _)
\* the for loop of OkxRestApi.on_query_order, from item i on
RestApi_on_query_order_loop(data, i, st) ==
    IF i > Len(data) THEN st
    ELSE LET p == parse_order_data(data[i], i, st)
         IN  IF p.raised THEN [p.st EXCEPT !.raised = TRUE]
             ELSE RestApi_on_query_order_loop(data, i + 1, Gateway_on_order(p.order, i, p.st))

\* OkxRestApi.on_query_order
RestApi_on_query_order(packet, st) ==
    LET s1 == RestApi_on_query_order_loop(packet.data, 1, st)
    IN  IF s1.raised THEN s1 ELSE write_log(s1, "orders queried", 0)

RECURSIVE PrivateApi_on_send_order_loop(_, _, _)
\* the for loop of OkxWebsocketPrivateApi.on_send_order, from item i on
PrivateApi_on_send_order_loop(data, i, st) ==
    IF i > Len(data) THEN st
    ELSE LET d == data[i]
             orderid == d.clOrdId
             s1 == LogBind(st, BindOrder(st, orderid, d.ordId), orderid, d.ordId, FALSE, i)
         IN  IF d.sCode = "0" THEN s1
             ELSE IF orderid \notin DOMAIN s1.orders THEN s1
             ELSE LET order == [s1.orders[orderid] EXCEPT !.status = "REJECTED"]
                      s2 == [s1 EXCEPT !.orders = Put(@, orderid, order)]
                      s3 == Gateway_on_order(order, i, s2)
                  IN  PrivateApi_on_send_order_loop(data, i + 1,
                                                    write_log(s3, "order failed", i))

\* OkxWebsocketPrivateApi.on_send_order
PrivateApi_on_send_order(packet, st) ==
    IF packet.code # "0" /\ packet.data = << >>
    THEN IF packet.id \notin DOMAIN st.reqmap
         THEN [st EXCEPT !.raised = TRUE]
         ELSE Gateway_on_order([st.reqmap[packet.id] EXCEPT !.status = "REJECTED"], 0, st)
    ELSE PrivateApi_on_send_order_loop(packet.data, 1, st)

(***************************************************************************)
(* Business channel: stop-order pushes.                                    *)
(***************************************************************************)
\* (mutant) no state is singled out
IsEffective_Never(d) == FALSE

\* if d['state'] == "effective": continue
IsEffective(d) == d.state = "effective"

RECURSIVE BusinessApi_on_stop_order_loop(_, _, _)
\* the for loop of OkxWebsocketBusinessApi.on_stop_order, from item i on
BusinessApi_on_stop_order_loop(data, i, st) ==
    IF i > Len(data) THEN st
    ELSE IF IsEffective(data[i])
    THEN BusinessApi_on_stop_order_loop(data, i + 1, st)
    ELSE LET p == parse_stop_order_data(data[i], i, st)
         IN  IF p.raised THEN [p.st EXCEPT !.raised = TRUE]
             ELSE BusinessApi_on_stop_order_loop(data, i + 1,
                      IF p.none THEN p.st ELSE Gateway_on_order(p.order, i, p.st))

\* OkxWebsocketBusinessApi.on_stop_order
BusinessApi_on_stop_order(packet, st) == BusinessApi_on_stop_order_loop(packet.data, 1, st)

(***************************************************************************)
(* REST: stop-order submit and its acknowledgement.                        *)
(***************************************************************************)
\* OrderRequest.create_order_data
create_order_data(req, orderid) ==
    OrderData(orderid, req.symbol, req.type, req.direction, req.offset, "SUBMITTING")

GatewayName == "OKX"

\* OrderData.vt_orderid
vt_orderid(order) == GatewayName \o "." \o order.orderid

\* (mutant) tdMode that never looks at the margin-capable set
TdMode_SpotCash(contract) == IF contract.product = "SPOT" THEN "cash" ELSE "cross"

\* tdMode of an order payload (send_order and send_stop_order)
TdMode(contract) ==
    IF contract.product = "SPOT"
    THEN IF contract.symbol \notin support_margin_spot_symbols THEN "cash" ELSE "cross"
    ELSE "cross"

\* (mutant) _new_order_id that does not count
NewOrderId_Same(st) == st

\* OkxGateway._new_order_id run without interruption by one caller
NewOrderId(st) == [st EXCEPT !.count = @ + 1]

\* self.gateway.on_order(order); return order.vt_orderid: the end of send_stop_order and
\* of send_order
PublishSubmitted(order, st) ==
    [Gateway_on_order(order, 0, [st EXCEPT !.submitting = @ \ {order}])
        EXCEPT !.returned = vt_orderid(order)]

\* OkxRestApi.send_stop_order up to and including add_request
RestApi_send_stop_order_request(req, st) ==
    IF req.symbol \notin DOMAIN symbol_contract_map
    THEN write_log(st, "no such contract", 0)
    ELSE LET contract == symbol_contract_map[req.symbol]
             s1 == NewOrderId(st)
             orderid == MakeOrderId(rest_connect_time, FormatCount(s1.count))
             order == create_order_data(req, orderid)
             data == [ instId |-> req.symbol, algoClOrdId |-> orderid,
                       side |-> DIRECTION_VT2OKX[req.direction],
                       ordType |-> "conditional", tdMode |-> TdMode(contract),
                       tgtCcy |-> IF contract.product = "SPOT" /\ req.direction = "LONG"
                                  THEN "base_ccy" ELSE "" ]
             s2 == [s1 EXCEPT
                       !.alloc = Append(@, [thread |-> "caller", api |-> "rest",
                                            orderid |-> orderid]),
                       !.restreq = @ \cup {order},
                       !.sent = Append(@, [ channel |-> "rest",
                                            op |-> "POST /api/v5/trade/order-algo",
                                            id |-> "", args |-> << data >> ])]
         IN  [s2 EXCEPT !.submitting = @ \cup {order}]

RECURSIVE RestApi_on_send_stop_order_loop(_, _, _)
\* the for loop of OkxRestApi.on_send_stop_order, from item i on
RestApi_on_send_stop_order_loop(data, i, st) ==
    IF i > Len(data) THEN st
    ELSE LET d == data[i]
             orderid == d.algoClOrdId
             s1 == LogBind(st, BindStopOrder(st, orderid, d.algoId),
                           orderid, d.algoId, TRUE, i)
         IN  IF d.sCode = "0" THEN s1
             ELSE LET s2 == write_log(s1, "order failed", i)
                  IN  IF orderid \notin DOMAIN s2.orders THEN s2
                      ELSE LET order == [s2.orders[orderid] EXCEPT !.status = "REJECTED"]
                               s3 == [s2 EXCEPT !.orders = Put(@, orderid, order)]
                           IN  RestApi_on_send_stop_order_loop(data, i + 1,
                                   Gateway_on_order(order, i, s3))

\* OkxRestApi.on_send_stop_order; extra is Request.extra, the order of the request
RestApi_on_send_stop_order(packet, extra, st) ==
    LET s0 == IF packet.code # "0"
              THEN Gateway_on_order([extra EXCEPT !.status = "REJECTED"], 0, st)
              ELSE st
    IN  RestApi_on_send_stop_order_loop(packet.data, 1, s0)

(***************************************************************************)
(* Order submit.                                                           *)
(***************************************************************************)
\* OkxWebsocketPrivateApi.send_order up to and including send_packet
PrivateApi_send_order_request(req, st) ==
    IF req.symbol \notin DOMAIN symbol_contract_map
    THEN write_log(st, "no such contract", 0)
    ELSE LET contract == symbol_contract_map[req.symbol]
             s1 == NewOrderId(st)
             orderid == MakeOrderId(ws_connect_time, FormatCount(s1.count))
             args == [ instId |-> req.symbol, clOrdId |-> orderid,
                       side |-> DIRECTION_VT2OKX[req.direction],
                       ordType |-> ORDERTYPE_VT2OKX[req.type],
                       tdMode |-> TdMode(contract) ]
             order == create_order_data(req, orderid)
             s2 == [s1 EXCEPT
                       !.alloc = Append(@, [thread |-> "caller", api |-> "ws",
                                            orderid |-> orderid]),
                       !.reqid = @ + 1,
                       !.wsreq = Put(@, ToString(s1.reqid + 1), order),
                       !.sent = Append(@, [ channel |-> "private", op |-> "order",
                                            id |-> ToString(s1.reqid + 1),
                                            args |-> << args >> ])]
         IN  [s2 EXCEPT !.submitting = @ \cup {order}]

\* (mutant) send_order that hands every request to the private channel
Gateway_send_order_request_AllWs(req, st) ==
    IF req.type \notin DOMAIN ORDERTYPE_VT2OKX THEN [st EXCEPT !.raised = TRUE]
    ELSE PrivateApi_send_order_request(req, st)

\* OkxGateway.send_order up to the request handed to the transport
Gateway_send_order_request(req, st) ==
    IF req.type \notin DOMAIN ORDERTYPE_VT2OKX
    THEN [st EXCEPT !.raised = TRUE]     \* self.gateway: OkxGateway has no such attribute
    ELSE IF req.type = "STOP" THEN RestApi_send_stop_order_request(req, st)
    ELSE PrivateApi_send_order_request(req, st)

(***************************************************************************)
(* Contract query: the contract table and the margin-capable spot symbols. *)
(***************************************************************************)
\* float(s) for the text of a whole number
float(s) == CHOOSE n \in 0..125 : ToString(n) = s

\* max_leverage = 1 if not d["lever"] else float(d["lever"])
max_leverage(d) == IF d.lever = "" THEN 1 ELSE float(d.lever)

RECURSIVE RestApi_on_query_instrument_loop(_, _, _)
\* the for loop of OkxRestApi.on_query_instrument, from item i on, then the log
RestApi_on_query_instrument_loop(data, i, st) ==
    IF i > Len(data) THEN write_log(st, "contracts loaded", 0)
    ELSE IF data[i].instType \notin DOMAIN PRODUCT_OKX2VT THEN [st EXCEPT !.raised = TRUE]
    ELSE LET d == data[i]
             product == PRODUCT_OKX2VT[d.instType]
             contract == [symbol |-> d.instId, product |-> product]
             s1 == IF product = "SPOT" /\ max_leverage(d) > 1
                   THEN [st EXCEPT !.margin = @ \cup {d.instId}] ELSE st
             s2 == [s1 EXCEPT !.contracts = Put(@, d.instId, contract),
                              !.out = Append(@, DataEvent("contract", contract, i))]
         IN  RestApi_on_query_instrument_loop(data, i + 1, s2)

\* OkxRestApi.on_query_instrument; the log after the loop reads the loop variable d,
\* which is not bound when data is empty
RestApi_on_query_instrument(packet, st) ==
    IF packet.data = << >> THEN [st EXCEPT !.raised = TRUE]
    ELSE RestApi_on_query_instrument_loop(packet.data, 1, st)

(***************************************************************************)
(* History query: pages of candles fetched over REST by one blocking call. *)
(* Timestamps are whole numbers of hours; the host's local time is ahead   *)
(* of a host on a fixed offset by utcoffset.                               *)
(***************************************************************************)
\* the offset datetime.fromtimestamp applies: the host's zone either keeps one offset or
\* sets its clocks back by an hour at hour 3
utcoffset(zone, ts) == IF zone = "dst" /\ ts < 3 THEN 1 ELSE 0

\* parse_timestamp: the naive local time of the instant, then labelled with CHINA_TZ;
\* two values compare (and hash) by their naive fields
parse_timestamp(ts, zone) == ts + utcoffset(zone, ts)

MaxPages == 15

\* (mutant) a loop of one more round
InRange_OneMore(i) == i <= MaxPages + 1

\* for i in range(15), with i counted from 1
InRange(i) == i <= MaxPages

\* (mutant) the cursor taken from the first bar listed
begin_First(data) == data[1].ts

\* begin = data["data"][-1][0]
begin(data) == data[Len(data)].ts

RECURSIVE StoreBars(_, _, _, _)
\* for bar_list in data["data"]: buf[bar.datetime] = bar, from row i on
StoreBars(buf, data, i, zone) ==
    IF i > Len(data) THEN buf
    ELSE LET dt == parse_timestamp(data[i].ts, zone)
         IN  StoreBars(Put(buf, dt, [datetime |-> dt, close_price |-> data[i].c]),
                       data, i + 1, zone)

RECURSIVE sorted(_)
\* index.sort(): the elements of a set of times in ascending order
sorted(S) ==
    IF S = {} THEN << >>
    ELSE LET x == CHOOSE y \in S : \A z \in S : y <= z IN << x >> \o sorted(S \ {x})

\* resp = self.request("GET", path, params): the server's answer to the i-th request of
\* one query, read off the script of the answers it gives
request(script, i) == IF i <= Len(script.prefix) THEN script.prefix[i] ELSE script.tail

RECURSIVE RestApi_query_history_loop(_, _, _, _)
\* the for loop of OkxRestApi.query_history from round v.i on, v holding the values of
\* the local variables and the gateway state; end_time is << >> while the code's is ""
RestApi_query_history_loop(req, script, zone, v) ==
    IF ~InRange(v.i) THEN v
    ELSE LET start_time == req.start - 1
             params == IF v.end_time = << >> THEN [before |-> start_time]
                       ELSE [before |-> start_time, after |-> v.end_time[1]]
             s1 == [v.st EXCEPT !.sent = Append(@, [ channel |-> "rest",
                                                     op |-> "GET /api/v5/market/candles",
                                                     id |-> "", args |-> << params >> ])]
             resp == request(script, v.i)
         IN  IF resp.status_code \div 100 # 2
             THEN [v EXCEPT !.st = write_log(s1, "history failed", v.i)]
             ELSE IF resp.data = << >> THEN [v EXCEPT !.st = s1]
             ELSE RestApi_query_history_loop(req, script, zone,
                        [ i |-> v.i + 1,
                          buf |-> StoreBars(v.buf, resp.data, 1, zone),
                          end_time |-> << begin(resp.data) >>,
                          st |-> write_log(s1, "history loaded", v.i) ])

\* OkxRestApi.query_history: the state after it and the list it returns
RestApi_query_history(req, script, zone, st) ==
    LET r == RestApi_query_history_loop(req, script, zone,
                    [i |-> 1, buf |-> EmptyDict, end_time |-> << >>, st |-> st])
        index == sorted(DOMAIN r.buf)
    IN  [st |-> r.st, history |-> [k \in 1..Len(index) |-> r.buf[index[k]]]]

(***************************************************************************)
(* Order cancel.                                                           *)
(***************************************************************************)
\* the entry of a cancel request for a regular order: clOrdId for an id of local_orderids,
\* ordId for any other
CancelArgs(req, st) ==
    IF req.orderid \in st.lids
    THEN [instId |-> req.symbol, clOrdId |-> req.orderid]
    ELSE [instId |-> req.symbol, ordId |-> req.orderid]

\* OkxWebsocketPrivateApi.cancel_order
PrivateApi_cancel_order(req, st) ==
    [st EXCEPT !.reqid = @ + 1,
               !.sent = Append(@, [ channel |-> "private", op |-> "cancel-order",
                                    id |-> ToString(st.reqid + 1),
                                    args |-> << CancelArgs(req, st) >> ])]

ChunkSize == 15

\* (mutant) chunks without the last, incomplete chunk
chunks_FullOnly(data, size) ==
    [k \in 1..(Len(data) \div size) |-> SubSeq(data, (k - 1) * size + 1, k * size)]

\* chunks, local to cancel_orders: [data[i : i + size] for i in range(0, len(data), size)]
chunks(data, size) ==
    [k \in 1..((Len(data) + size - 1) \div size) |->
        SubSeq(data, (k - 1) * size + 1,
               IF k * size < Len(data) THEN k * size ELSE Len(data))]

RECURSIVE PrivateApi_cancel_orders_loop(_, _, _)
\* the loop of OkxWebsocketPrivateApi.cancel_orders over the chunks, from chunk k on
PrivateApi_cancel_orders_loop(request_chunks, k, st) ==
    IF k > Len(request_chunks) THEN st
    ELSE LET requests == request_chunks[k]
             all_args == [i \in 1..Len(requests) |-> CancelArgs(requests[i], st)]
         IN  PrivateApi_cancel_orders_loop(request_chunks, k + 1,
                [st EXCEPT !.reqid = @ + 1,
                           !.sent = Append(@, [ channel |-> "private",
                                                op |-> "batch-cancel-orders",
                                                id |-> ToString(st.reqid + 1),
                                                args |-> all_args ])])

\* OkxWebsocketPrivateApi.cancel_orders
PrivateApi_cancel_orders(requests, st) ==
    PrivateApi_cancel_orders_loop(chunks(requests, ChunkSize), 1, st)

\* (mutant) cancel_stop_order that sends the local id whatever is bound
RestApi_cancel_stop_order_Unchecked(req, st) ==
    [st EXCEPT !.sent =
        Append(@, [ channel |-> "rest", op |-> "POST /api/v5/trade/cancel-algos",
                    id |-> "",
                    args |-> << [instId |-> req.symbol, algoId |-> req.orderid] >> ])]

\* OkxRestApi.cancel_stop_order
RestApi_cancel_stop_order(req, st) ==
    IF req.orderid \notin DOMAIN st.lro THEN st
    ELSE [st EXCEPT !.sent =
            Append(@, [ channel |-> "rest", op |-> "POST /api/v5/trade/cancel-algos",
                        id |-> "",
                        args |-> << [ instId |-> req.symbol,
                                      algoId |-> st.lro[req.orderid] ] >> ])]

\* OkxGateway.cancel_order; order.type of no order is an AttributeError
Gateway_cancel_order(req, st) ==
    LET order == get_order(st, req.orderid)
    IN  IF req.orderid \notin DOMAIN st.orders THEN [st EXCEPT !.raised = TRUE]
        ELSE IF order.type = "STOP" THEN RestApi_cancel_stop_order(req, st)
        ELSE PrivateApi_cancel_order(req, st)

RECURSIVE Gateway_cancel_orders_loop(_, _, _, _)
\* the for loop of OkxGateway.cancel_orders from request i on, and what follows it
Gateway_cancel_orders_loop(requests, i, cancel_requests, st) ==
    IF i > Len(requests)
    THEN IF cancel_requests # << >> THEN PrivateApi_cancel_orders(cancel_requests, st)
         ELSE st
    ELSE LET req == requests[i]
             order == get_order(st, req.orderid)
         IN  IF req.orderid \notin DOMAIN st.orders THEN [st EXCEPT !.raised = TRUE]
             ELSE IF order.type = "STOP"
             THEN Gateway_cancel_orders_loop(requests, i + 1, cancel_requests,
                                             RestApi_cancel_stop_order(req, st))
             ELSE Gateway_cancel_orders_loop(requests, i + 1,
                                             Append(cancel_requests, req), st)

\* OkxGateway.cancel_orders
Gateway_cancel_orders(requests, st) == Gateway_cancel_orders_loop(requests, 1, << >>, st)

(***************************************************************************)
(* The three WebSocket channels: connection, login, subscription and       *)
(* keep-alive.  sent collects the frames the handlers hand to send_packet  *)
(* or send_str.                                                            *)
(***************************************************************************)
\* send_packet of the API object of channel ch
send_packet(ch, op, args, st) ==
    [st EXCEPT !.sent = Append(@, [channel |-> ch, op |-> op, id |-> "", args |-> args])]

\* SubscribeRequest.vt_symbol
vt_symbol(req) == req.symbol \o "." \o req.exchange

\* d[k] = v on a dict that keeps its keys in insertion order
OrderedPut(d, k, v) ==
    IF \E i \in 1..Len(d) : d[i].key = k
    THEN [i \in 1..Len(d) |-> IF d[i].key = k THEN [key |-> k, value |-> v] ELSE d[i]]
    ELSE Append(d, [key |-> k, value |-> v])

\* TickData, with the fields the handlers set
TickData(symbol) == [symbol |-> symbol, last_price |-> "", bid_price_1 |-> ""]

\* OkxWebsocketPublicApi.subscribe
PublicApi_subscribe(req, st) ==
    send_packet("public", "subscribe",
                << [channel |-> "tickers", instId |-> req.symbol],
                   [channel |-> "books5", instId |-> req.symbol] >>,
                [st EXCEPT !.subscribed = OrderedPut(@, vt_symbol(req), req),
                           !.ticks = Put(@, req.symbol, TickData(req.symbol))])

RECURSIVE PublicApi_on_connected_loop(_, _, _)
\* for req in list(self.subscribed.values()): self.subscribe(req), from entry i on
PublicApi_on_connected_loop(entries, i, st) ==
    IF i > Len(entries) THEN st
    ELSE PublicApi_on_connected_loop(entries, i + 1,
                                     PublicApi_subscribe(entries[i].value, st))

\* OkxWebsocketPublicApi.on_connected
PublicApi_on_connected(st) ==
    LET s1 == write_log(st, "public connected", 0)
    IN  PublicApi_on_connected_loop(s1.subscribed, 1, s1)

\* OkxWebsocketPrivateApi.login / OkxWebsocketBusinessApi.login
login(ch, st) == send_packet(ch, "login", << [apiKey |-> "key"] >>, st)

\* OkxWebsocketPrivateApi.on_connected
PrivateApi_on_connected(st) == login("private", write_log(st, "private connected", 0))

\* OkxWebsocketBusinessApi.on_connected
BusinessApi_on_connected(st) == login("business", write_log(st, "business connected", 0))

\* on_disconnected of the three API objects
on_disconnected(ch, st) == write_log(st, ch \o " disconnected", 0)

PrivateTopics ==
    << [channel |-> "orders", instType |-> "ANY"], [channel |-> "account"],
       [channel |-> "positions", instType |-> "ANY"] >>

BusinessTopics == << [channel |-> "orders-algo", instType |-> "ANY"] >>

\* OkxWebsocketPrivateApi.subscribe_topic
PrivateApi_subscribe_topic(st) == send_packet("private", "subscribe", PrivateTopics, st)

\* OkxWebsocketBusinessApi.subscribe_topic
BusinessApi_subscribe_topic(st) == send_packet("business", "subscribe", BusinessTopics, st)

\* (mutant) on_login that subscribes whatever the code
PrivateApi_on_login_Always(packet, st) ==
    PrivateApi_subscribe_topic(write_log(st, "private login", 0))

\* OkxWebsocketPrivateApi.on_login
PrivateApi_on_login(packet, st) ==
    IF packet.code = "0"
    THEN PrivateApi_subscribe_topic(write_log(st, "private login succeeded", 0))
    ELSE write_log(st, "private login failed", 0)

\* OkxWebsocketBusinessApi.on_login
BusinessApi_on_login(packet, st) ==
    IF packet.code = "0"
    THEN BusinessApi_subscribe_topic(write_log(st, "business login succeeded", 0))
    ELSE write_log(st, "business login failed", 0)

\* on_api_error of the private and the business API: packet["code"], packet["msg"]
on_api_error(ch, packet, st) ==
    IF {"code", "msg"} \subseteq DOMAIN packet
    THEN write_log(st, ch \o " request failed", 0)
    ELSE [st EXCEPT !.raised = TRUE]

\* OkxWebsocketApi.ping: the text frame "ping", sent if the API object has a socket
ping(ch, st) == IF st.open[ch] THEN send_packet(ch, "ping", << >>, st) ELSE st

PingInterval == 10

\* (mutant) process_timer_event without the test of the time since the last round
process_timer_event_Always(st) ==
    ping("business", ping("private", ping("public", [st EXCEPT !.ping = st.now])))

\* OkxGateway.process_timer_event; st.now is datetime.now().timestamp()
process_timer_event(st) ==
    IF st.now - st.ping < PingInterval THEN st
    ELSE ping("business", ping("private", ping("public", [st EXCEPT !.ping = st.now])))

(***************************************************************************)
(* Inbound frames: decoding, the handlers not met so far, and dispatch.    *)
(* A frame off the wire is a record with its text; value is the dict the   *)
(* JSON decoder makes of the text when it is JSON.                         *)
(***************************************************************************)
\* WebsocketClient.unpack_data: json.loads, which raises on a text that is not JSON
json_loads(raw) ==
    IF "value" \in DOMAIN raw THEN [raised |-> FALSE, packet |-> raw.value]
    ELSE [raised |-> TRUE, packet |-> [op |-> ""]]

\* (mutant) unpack_data without the case of "pong"
unpack_data_JsonOnly(raw) == json_loads(raw)

\* OkxWebsocketApi.unpack_data
unpack_data(raw) ==
    IF raw.text = "pong" THEN [raised |-> FALSE, packet |-> [op |-> "ping"]]
    ELSE json_loads(raw)

\* OkxWebsocketPrivateApi.on_account: one account event per detail of data[0]
PrivateApi_on_account(packet, st) ==
    IF Len(packet.data) = 0 THEN st
    ELSE [st EXCEPT !.out = @ \o [i \in 1..Len(packet.data[1].details) |->
            DataEvent("account", [accountid |-> packet.data[1].details[i].ccy], i)]]

\* OkxWebsocketPrivateApi.on_position: one position event per item
PrivateApi_on_position(packet, st) ==
    [st EXCEPT !.out = @ \o [i \in 1..Len(packet.data) |->
            DataEvent("position", [symbol |-> packet.data[i].instId], i)]]

\* OkxWebsocketPrivateApi.on_cancel_order: a log for the failed request, else one per
\* item up to the first item with sCode "0", where the handler returns
PrivateApi_on_cancel_order(packet, st) ==
    IF packet.code # "0" THEN write_log(st, "cancel failed", 0)
    ELSE LET ok == { i \in 1..Len(packet.data) : packet.data[i].sCode = "0" }
             n == IF ok = {} THEN Len(packet.data)
                  ELSE (CHOOSE i \in ok : \A j \in ok : i <= j) - 1
         IN  [st EXCEPT !.out = @ \o [i \in 1..n |-> LogEvent("cancel failed", i)]]

RECURSIVE PublicApi_on_ticker_loop(_, _, _)
PublicApi_on_ticker_loop(data, i, st) ==
    IF i > Len(data) THEN st
    ELSE IF data[i].instId \notin DOMAIN st.ticks THEN [st EXCEPT !.raised = TRUE]
    ELSE PublicApi_on_ticker_loop(data, i + 1,
            [st EXCEPT !.ticks[data[i].instId].last_price = data[i].last])

\* OkxWebsocketPublicApi.on_ticker
PublicApi_on_ticker(data, st) == PublicApi_on_ticker_loop(data, 1, st)

RECURSIVE PublicApi_on_depth_loop(_, _, _)
PublicApi_on_depth_loop(data, i, st) ==
    IF i > Len(data) THEN st
    ELSE IF data[i].instId \notin DOMAIN st.ticks THEN [st EXCEPT !.raised = TRUE]
    ELSE LET s1 == [st EXCEPT !.ticks[data[i].instId].bid_price_1 = data[i].bid]
         IN  PublicApi_on_depth_loop(data, i + 1,
                [s1 EXCEPT !.out = Append(@, DataEvent("tick",
                                                       s1.ticks[data[i].instId], i))])

\* OkxWebsocketPublicApi.on_depth
PublicApi_on_depth(data, st) == PublicApi_on_depth_loop(data, 1, st)

\* the names with an entry in self.callbacks, per channel
Callbacks(ch) ==
    IF ch = "public" THEN {"tickers", "books5"}
    ELSE IF ch = "private"
    THEN {"login", "orders", "account", "positions", "order", "cancel-order", "error"}
    ELSE {"login", "orders-algo", "error"}

\* the keys of the packet a callback reads before anything else
FirstKeys(name) ==
    IF name = "error" THEN {"code", "msg"}
    ELSE IF name \in {"login", "cancel-order"} THEN {"code"}
    ELSE IF name = "order" THEN {"code", "data", "id"}
    ELSE {"data"}

\* which of the three fields names the frame: "none" is the KeyError of packet["arg"]
FrameClass(packet) ==
    IF "event" \in DOMAIN packet THEN "event"
    ELSE IF "op" \in DOMAIN packet THEN "op"
    ELSE IF "arg" \in DOMAIN packet THEN "channel"
    ELSE "none"

\* (mutant) the name taken from the channel argument first
CallbackName_ChannelFirst(packet) ==
    IF "arg" \in DOMAIN packet THEN packet.arg.channel
    ELSE IF "op" \in DOMAIN packet THEN packet.op
    ELSE packet.event

\* cb_name of on_packet (private and business API)
CallbackName(packet) ==
    IF "event" \in DOMAIN packet THEN packet.event
    ELSE IF "op" \in DOMAIN packet THEN packet.op
    ELSE packet.arg.channel

\* callback(packet) for the entry name of the private API's table
PrivateApi_callback(name, packet, st) ==
    IF ~(FirstKeys(name) \subseteq DOMAIN packet) THEN [st EXCEPT !.raised = TRUE]
    ELSE CASE name = "login" -> PrivateApi_on_login(packet, st)
           [] name = "orders" -> PrivateApi_on_order(packet, st)
           [] name = "account" -> PrivateApi_on_account(packet, st)
           [] name = "positions" -> PrivateApi_on_position(packet, st)
           [] name = "order" -> PrivateApi_on_send_order(packet, st)
           [] name = "cancel-order" -> PrivateApi_on_cancel_order(packet, st)
           [] OTHER -> on_api_error("private", packet, st)

\* (mutant) on_packet that takes a name without a table entry for a failed request
PrivateApi_on_packet_Strict(packet, st) ==
    IF FrameClass(packet) = "none" THEN [st EXCEPT !.raised = TRUE]
    ELSE IF CallbackName(packet) \in Callbacks("private")
    THEN PrivateApi_callback(CallbackName(packet), packet, st)
    ELSE on_api_error("private", packet, st)

\* OkxWebsocketPrivateApi.on_packet
PrivateApi_on_packet(packet, st) ==
    IF FrameClass(packet) = "none" THEN [st EXCEPT !.raised = TRUE]
    ELSE IF CallbackName(packet) \in Callbacks("private")
    THEN PrivateApi_callback(CallbackName(packet), packet, st)
    ELSE st

\* callback(packet) for the entry name of the business API's table
BusinessApi_callback(name, packet, st) ==
    IF ~(FirstKeys(name) \subseteq DOMAIN packet) THEN [st EXCEPT !.raised = TRUE]
    ELSE CASE name = "login" -> BusinessApi_on_login(packet, st)
           [] name = "orders-algo" -> BusinessApi_on_stop_order(packet, st)
           [] OTHER -> on_api_error("business", packet, st)

\* OkxWebsocketBusinessApi.on_packet
BusinessApi_on_packet(packet, st) ==
    IF FrameClass(packet) = "none" THEN [st EXCEPT !.raised = TRUE]
    ELSE IF CallbackName(packet) \in Callbacks("business")
    THEN BusinessApi_callback(CallbackName(packet), packet, st)
    ELSE st

\* callback(data) for the entry name of the public API's table
PublicApi_callback(name, packet, st) ==
    IF "data" \notin DOMAIN packet THEN [st EXCEPT !.raised = TRUE]
    ELSE IF name = "tickers" THEN PublicApi_on_ticker(packet.data, st)
    ELSE PublicApi_on_depth(packet.data, st)

\* OkxWebsocketPublicApi.on_packet
PublicApi_on_packet(packet, st) ==
    IF "event" \in DOMAIN packet
    THEN IF packet.event = "subscribe" THEN st
         ELSE IF packet.event = "error" THEN on_api_error("public", packet, st)
         ELSE st
    ELSE IF "op" \in DOMAIN packet
    THEN IF packet.op \in Callbacks("public")
         THEN PublicApi_callback(packet.op, packet, st) ELSE st
    ELSE IF "arg" \notin DOMAIN packet THEN [st EXCEPT !.raised = TRUE]
    ELSE IF packet.arg.channel \in Callbacks("public")
    THEN PublicApi_callback(packet.arg.channel, packet, st)
    ELSE st

\* on_packet of the API object of channel ch
on_packet(ch, packet, st) ==
    IF ch = "public" THEN PublicApi_on_packet(packet, st)
    ELSE IF ch = "private" THEN PrivateApi_on_packet(packet, st)
    ELSE BusinessApi_on_packet(packet, st)

\* on_connected of the API object of channel ch
on_connected(ch, st) ==
    IF ch = "public" THEN PublicApi_on_connected(st)
    ELSE IF ch = "private" THEN PrivateApi_on_connected(st)
    ELSE BusinessApi_on_connected(st)

(***************************************************************************)
(* The environment: what the caller submits and what the exchange sends.   *)
(* The exchange gives every order one remote id: an order placed with a    *)
(* client id keeps the remote id derived from it, orders placed without a  *)
(* client id (by another client of the account) have remote ids of their   *)
(* own.  It echoes only client ids it was given: ids of orders this        *)
(* gateway submitted, or the id another client of the account chose.       *)
(***************************************************************************)
ExternalId == "ext1"

SentIds(a) ==
    {allocated[k].orderid : k \in {n \in 1..Len(allocated) : allocated[n].api = a}}

RemoteIdOf(cl) == "R" \o cl

AlgoIdOf(cl) == "A" \o cl

AnonymousOrderIds == {"R1", "R2"}

AnonymousAlgoIds == {"A1"}

OrderRequests(types, offsets) ==
    [ symbol : {"BTC-USDT"}, type : types, direction : {"LONG", "SHORT"},
      offset : offsets ]

\* items of an orders push for orders placed with client id cl ("" for none)
OrderItems(cls, sides, states, fills) ==
    UNION { [ instId : {"BTC-USDT"}, clOrdId : {cl},
              ordId : IF cl = "" THEN AnonymousOrderIds ELSE {RemoteIdOf(cl)},
              algoId : {""}, ordType : {"limit"}, side : sides, state : states,
              fillSz : fills, tradeId : {"T1"} ] : cl \in cls }

\* items of an orders push for the order a triggered stop order spawned
ChildOrderItems(algoIds, fills) ==
    [ instId : {"BTC-USDT"}, clOrdId : {""}, ordId : {"R9"}, algoId : algoIds,
      ordType : {"market"}, side : {"sell"}, state : {"filled"}, fillSz : fills,
      tradeId : {"T9"} ]

\* items of an orders-algo push
AlgoItems(cls, sides, states, ordTypes) ==
    UNION { [ instId : {"BTC-USDT"}, algoClOrdId : {cl},
              algoId : IF cl = "" THEN AnonymousAlgoIds ELSE {AlgoIdOf(cl)},
              ordType : ordTypes, side : sides, state : states ] : cl \in cls }

\* items of the acknowledgement of an order request
AckItems(cls, codes) ==
    UNION { [ clOrdId : {cl}, ordId : {RemoteIdOf(cl)}, sCode : codes ] : cl \in cls }

\* items of the response to a stop-order request
StopAckItems(cls, codes) ==
    UNION { [ algoClOrdId : {cl}, algoId : {AlgoIdOf(cl)}, sCode : codes ] : cl \in cls }

\* CancelRequest, with the fields the handlers read
CancelRequests(ids) == [orderid : ids, symbol : {"BTC-USDT"}]

RECURSIVE SeqOfSet(_)
\* the elements of a finite set in some fixed order
SeqOfSet(S) ==
    IF S = {} THEN << >>
    ELSE LET x == CHOOSE y \in S : TRUE IN << x >> \o SeqOfSet(S \ {x})

\* a list of n cancel requests that goes round the ids of pool, on two instruments
Batch(pool, n) ==
    [i \in 1..n |-> [ orderid |-> pool[((i - 1) % Len(pool)) + 1],
                      symbol |-> IF i % 3 = 0 THEN "BTC-USDT-SWAP" ELSE "BTC-USDT" ]]

\* the lists of up to n cancel requests for orders of the cache
Batches(n) ==
    { Batch(SeqOfSet(ids), k) : ids \in (SUBSET DOMAIN orders) \ {{}}, k \in 0..n }

\* SubscribeRequest, with the fields the handlers read
SubscribeRequests(symbols, exchanges) == [symbol : symbols, exchange : exchanges]

\* a text frame that is JSON, with the dict json.loads makes of it
Json(value) == [text |-> "json", value |-> value]

\* the text frame the server answers a "ping" with
Pong == [text |-> "pong"]

\* the answers of the server to a login request
LoginAcks == { Json([event |-> "login", code |-> "0", msg |-> ""]),
               Json([event |-> "login", code |-> "60009", msg |-> "Login failed."]),
               Json([event |-> "error", code |-> "60009", msg |-> "Login failed."]) }

\* an item that carries the keys of an orders push and those of an order reply
MixedItem ==
    [ instId |-> "BTC-USDT", clOrdId |-> ExternalId, ordId |-> RemoteIdOf(ExternalId),
      algoId |-> "", ordType |-> "limit", side |-> "buy", state |-> "live",
      fillSz |-> "0", tradeId |-> "", sCode |-> "51000", sMsg |-> "" ]

\* frames of the private channel: pushes, replies, events, names without a handler and
\* frames that carry more than one of event, op and arg
PrivateFrames ==
    { Pong,
      Json([op |-> "ping"]),
      Json([arg |-> [channel |-> "orders"], data |-> << MixedItem >>]),
      Json([arg |-> [channel |-> "account"],
            data |-> << [details |-> << [ccy |-> "USDT"] >>] >>]),
      Json([arg |-> [channel |-> "positions"], data |-> << [instId |-> "BTC-USDT"] >>]),
      Json([op |-> "order", id |-> "1", code |-> "1", msg |-> "",
            data |-> << MixedItem >>]),
      Json([op |-> "cancel-order", id |-> "2", code |-> "0", msg |-> "",
            data |-> << MixedItem >>]),
      Json([event |-> "error", code |-> "60012", msg |-> "Illegal request"]),
      Json([event |-> "login", code |-> "0", msg |-> ""]),
      Json([event |-> "error", code |-> "60012", msg |-> "", op |-> "order", id |-> "1",
            arg |-> [channel |-> "orders"], data |-> << MixedItem >>]),
      Json([op |-> "order", id |-> "1", code |-> "1", msg |-> "",
            arg |-> [channel |-> "orders"], data |-> << MixedItem >>]),
      Json([event |-> "subscribe", arg |-> [channel |-> "orders"]]),
      Json([op |-> "batch-cancel-orders", id |-> "3", code |-> "1", msg |-> "",
            data |-> << MixedItem >>]),
      Json([arg |-> [channel |-> "balance_and_position"], data |-> << MixedItem >>]) }

\* frames of the business channel
BusinessFrames ==
    { Pong,
      Json([op |-> "ping"]),
      Json([arg |-> [channel |-> "orders-algo"],
            data |-> << [ instId |-> "BTC-USDT", algoClOrdId |-> ExternalId,
                          algoId |-> AlgoIdOf(ExternalId), ordType |-> "conditional",
                          side |-> "sell", state |-> "live" ] >>]),
      Json([event |-> "error", code |-> "60012", msg |-> "Illegal request"]),
      Json([event |-> "subscribe", arg |-> [channel |-> "orders-algo"]]),
      Json([arg |-> [channel |-> "algo-advance"], data |-> << MixedItem >>]) }

\* an item of a tickers or books5 push
TickItem == [instId |-> "BTC-USDT", last |-> "50000", bid |-> "49999"]

\* frames of the public channel
PublicFrames ==
    { Pong,
      Json([op |-> "ping"]),
      Json([arg |-> [channel |-> "tickers"], data |-> << TickItem >>]),
      Json([arg |-> [channel |-> "books5"], data |-> << TickItem >>]),
      Json([op |-> "books5", data |-> << TickItem >>]),
      Json([event |-> "subscribe", arg |-> [channel |-> "tickers"]]),
      Json([event |-> "error", code |-> "60018", msg |-> "", arg |-> [channel |-> "books5"],
            data |-> << TickItem >>]),
      Json([op |-> "unsubscribe", arg |-> [channel |-> "books5"], data |-> << TickItem >>]),
      Json([event |-> "channel-conn-count", channel |-> "tickers"]),
      Json([arg |-> [channel |-> "trades"], data |-> << TickItem >>]) }

\* the frames the server may send on channel ch
FramesOf(ch) ==
    IF ch = "public" THEN PublicFrames
    ELSE IF ch = "private" THEN PrivateFrames
    ELSE BusinessFrames

\* OrderRequest over several instruments, with the fields the handlers read
SubmitRequests(symbols, types) ==
    [ symbol : symbols, type : types, direction : {"LONG", "SHORT"}, offset : {"NONE"} ]

\* items of the answer to a contract query
InstrumentItems ==
    [ instId : {"BTC-USDT"}, instType : {"SPOT"}, lever : {"", "1", "5"} ]
    \cup [ instId : {"DOGE-USDT"}, instType : {"SPOT", "OPTION"}, lever : {"5"} ]
    \cup [ instId : {"BTC-USDT-SWAP"}, instType : {"SWAP"}, lever : {"100"} ]

\* the bar times the server knows, in hours
Times == 1..MaxTime

\* the time lists of a page: at most two bars, the newest first
PageTimes ==
    { << t >> : t \in Times } \cup { p \in Times \X Times : p[1] > p[2] }

\* the answer with the bars of the given times; c tells the answers of a script apart
Page(times, c) ==
    [ status_code |-> 200, msg |-> "",
      data |-> [k \in 1..Len(times) |-> [ts |-> times[k], c |-> c]] ]

\* the answers that end a query: an empty page, a server error
Terminators ==
    { [status_code |-> 200, msg |-> "no data", data |-> << >>],
      [status_code |-> 500, msg |-> "", data |-> << >>] }

\* what the server answers to the requests of one query: the pages of prefix, then tail
\* to every further request
Scripts ==
    { [ prefix |-> [k \in 1..Len(ps) |-> Page(ps[k], k)], tail |-> t ] :
        ps \in UNION { [1..n -> PageTimes] : n \in 0..MaxPrefix },
        t \in Terminators \cup { Page(times, MaxPrefix + 1) : times \in PageTimes } }

\* HistoryRequest, with the field the handler reads
HistoryRequests == [symbol : {"BTC-USDT"}, start : {1}]

\* the seconds between two runs of a handler
Delays == {4, 10}

\* the data lists of at most n items over a set of items, the empty one left out
Frames(items, n) == UNION { [1..k -> items] : k \in 1..n }

(***************************************************************************)
(* Actions: one handler run to completion on one input.                    *)
(***************************************************************************)
Commit(st, op) ==
    /\ local_remote_orderid_map' = st.lro
    /\ remote_local_algo_orderid_map' = st.rla
    /\ local_orderids' = st.lids
    /\ orders' = st.orders
    /\ order_count' = st.count
    /\ reqid' = st.reqid
    /\ reqid_order_map' = st.reqmap
    /\ ws_requests' = st.wsreq
    /\ rest_requests' = st.restreq
    /\ submitting' = st.submitting
    /\ last_ping_timestamp' = st.ping
    /\ clock' = st.now
    /\ ws_open' = st.open
    /\ ws_connects' = st.connects
    /\ login_pending' = st.pending
    /\ subscribed' = st.subscribed
    /\ ticks' = st.ticks
    /\ requested' = st.requested
    /\ symbol_gateway_map' = st.gateways
    /\ symbol_contract_map' = st.contracts
    /\ support_margin_spot_symbols' = st.margin
    /\ allocated' = st.alloc
    /\ bound_regular' = st.breg
    /\ bound_stop' = st.bstop
    /\ known_offset' = st.known
    /\ emitted' = st.out
    /\ sent' = st.sent
    /\ binds' = st.binds
    /\ raised' = st.raised
    /\ returned' = st.returned
    /\ last' = op
    /\ steps' = IF op.op = "send_order_end" THEN steps ELSE steps + 1
    /\ UNCHANGED << order_count_lock, rest_connect_time, ws_connect_time, pc, loaded,
                    ret, api >>

\* a handler starts once the engine and the transport took what the last one produced
Ready == last.op = "idle" /\ steps < MaxSteps

\* the engine takes the events off its queue, the transport the frames handed to it
Drain ==
    /\ last.op # "idle"
    /\ emitted' = << >>
    /\ sent' = << >>
    /\ binds' = << >>
    /\ raised' = FALSE
    /\ returned' = ""
    /\ last' = [op |-> "idle"]
    /\ UNCHANGED << order_count, order_count_lock, rest_connect_time, ws_connect_time,
                    reqid, reqid_order_map, symbol_contract_map,
                    support_margin_spot_symbols, orders, ws_requests, rest_requests,
                    submitting, pc, loaded, ret, api, allocated, known_offset, steps >>
    /\ UNCHANGED idVars
    /\ UNCHANGED chanVars

\* the caller's send_order runs up to the request handed to the transport, on which the
\* channel thread may then run before the caller goes on
SendOrderBegin(req) ==
    /\ Ready
    /\ order_count < MaxOrders
    /\ Commit(Gateway_send_order_request(req, Cur), [op |-> "send_order_begin", req |-> req])

\* the caller's send_order goes on to its end
SendOrderEnd(order) ==
    /\ last.op = "idle"
    /\ order \in submitting
    /\ Commit(PublishSubmitted(order, Cur), [op |-> "send_order_end", order |-> order])

\* the private channel receives an orders push
OrdersPush(data) ==
    /\ Ready
    /\ Commit(PrivateApi_on_order([data |-> data], Cur), [op |-> "orders", data |-> data])

\* the business channel receives an orders-algo push
OrdersAlgoPush(data) ==
    /\ Ready
    /\ Commit(BusinessApi_on_stop_order([data |-> data], Cur),
              [op |-> "orders-algo", data |-> data])

\* the private channel receives the acknowledgement of the order request id
SendOrderAck(id, code, data) ==
    /\ Ready
    /\ id \in DOMAIN ws_requests
    /\ LET st == [Cur EXCEPT !.wsreq = [k \in (DOMAIN @) \ {id} |-> @[k]]]
       IN  Commit(PrivateApi_on_send_order([id |-> id, code |-> code, data |-> data], st),
                  [ op |-> "order", id |-> id, code |-> code, data |-> data,
                    order |-> ws_requests[id] ])

\* REST receives the response to the stop-order request that carries extra
SendStopOrderAck(extra, code, data) ==
    /\ Ready
    /\ extra \in rest_requests
    /\ LET st == [Cur EXCEPT !.restreq = @ \ {extra}]
       IN  Commit(RestApi_on_send_stop_order([code |-> code, data |-> data], extra, st),
                  [ op |-> "order-algo", id |-> "", code |-> code, data |-> data,
                    order |-> extra ])

\* the caller cancels an order
CancelOrder(req) ==
    /\ Ready
    /\ Commit(Gateway_cancel_order(req, Cur), [op |-> "cancel_order", req |-> req])

\* the caller cancels a list of orders
CancelOrders(requests) ==
    /\ Ready
    /\ Commit(Gateway_cancel_orders(requests, Cur),
              [op |-> "cancel_orders", requests |-> requests])

\* REST receives the answer to the query of the pending orders
QueryOrder(data) ==
    /\ Ready
    /\ Commit(RestApi_on_query_order([data |-> data], Cur),
              [op |-> "query_order", data |-> data])

\* REST receives the answer to a contract query
QueryInstrument(data) ==
    /\ Ready
    /\ Commit(RestApi_on_query_instrument([data |-> data], Cur),
              [op |-> "query_instrument", data |-> data])

\* the caller queries the bar history on a host in the given zone; the call blocks until
\* the last page is in
QueryHistory(req, script, zone) ==
    /\ last.op = "idle"
    /\ steps < MaxQueries
    /\ LET r == RestApi_query_history(req, script, zone, Cur)
       IN  Commit(r.st, [ op |-> "query_history", req |-> req, script |-> script,
                          zone |-> zone, history |-> r.history ])

(***************************************************************************)
(* The relay gateway (RpcGateway): requests are handed to the RPC client    *)
(* together with the name of the downstream gateway that listed the symbol. *)
(***************************************************************************)
\* RpcGateway.default_name
RelayName == "RPC"

\* the mutant of AddToGroup: every request opens a group of its own
AddToGroup_NewGroup(groups, name, req) == Append(groups, [name |-> name, requests |-> << req >>])

\* gateway_requests[gateway_name].append(req) on a defaultdict(list): the groups are kept
\* in the order their keys were first used, as a dict keeps them
AddToGroup(groups, name, req) ==
    IF \E k \in 1..Len(groups) : groups[k].name = name
    THEN [k \in 1..Len(groups) |->
            IF groups[k].name = name
            THEN [groups[k] EXCEPT !.requests = Append(@, req)]
            ELSE groups[k]]
    ELSE Append(groups, [name |-> name, requests |-> << req >>])

RECURSIVE RpcGateway_group(_, _, _)
\* the first loop of RpcGateway.cancel_orders
RpcGateway_group(requests, i, st) ==
    IF i = 0 THEN << >>
    ELSE AddToGroup(RpcGateway_group(requests, i - 1, st),
                    Get(st.gateways, vt_symbol(requests[i]), ""), requests[i])

RECURSIVE RpcGateway_forward(_, _, _)
\* the second loop of RpcGateway.cancel_orders: one client call for each group with requests
RpcGateway_forward(groups, i, st) ==
    IF i = 0 THEN st
    ELSE LET s1 == RpcGateway_forward(groups, i - 1, st)
         IN  IF groups[i].requests = << >> THEN s1
             ELSE [s1 EXCEPT !.sent = Append(@, [ channel |-> "rpc", op |-> "cancel_orders",
                                                  id |-> "",
                                                  args |-> << groups[i].requests,
                                                              groups[i].name >> ])]

\* RpcGateway.cancel_orders
RpcGateway_cancel_orders(requests, st) ==
    LET groups == RpcGateway_group(requests, Len(requests), st)
    IN  RpcGateway_forward(groups, Len(groups), st)

RECURSIVE RpcGateway_query_contracts(_, _, _)
\* the contract loop of RpcGateway.query_all
RpcGateway_query_contracts(contracts, i, st) ==
    IF i = 0 THEN st
    ELSE LET s1 == RpcGateway_query_contracts(contracts, i - 1, st)
             c == contracts[i]
         IN  [s1 EXCEPT !.gateways = Put(@, vt_symbol(c), c.gateway_name),
                        !.out = Append(@, DataEvent("contract",
                                                    [c EXCEPT !.gateway_name = RelayName], i))]

\* RpcGateway.query_all, against a server that lists contracts and holds no account,
\* position, order or trade
RpcGateway_query_all(contracts, st) ==
    LET s1 == RpcGateway_query_contracts(contracts, Len(contracts), st)
        s2 == write_log(s1, "contracts queried", 0)
        s3 == write_log(s2, "accounts queried", 0)
        s4 == write_log(s3, "positions queried", 0)
        s5 == write_log(s4, "orders queried", 0)
    IN  write_log(s5, "trades queried", 0)

\* the contracts the downstream gateways list: one symbol is listed by two of them
RelayContracts ==
    { [symbol |-> "BTC-USDT", exchange |-> "OKX", gateway_name |-> "OKX"],
      [symbol |-> "rb2410", exchange |-> "SHFE", gateway_name |-> "CTP"],
      [symbol |-> "rb2410", exchange |-> "SHFE", gateway_name |-> "SIM"] }

\* the lists of contracts the server answers with
ContractLists == { << >> } \cup { << c >> : c \in RelayContracts }
                    \cup { p \in RelayContracts \X RelayContracts : p[1] # p[2] }

\* the cancel requests the caller hands over: one symbol is listed by no gateway
RelayRequests ==
    [ orderid : {"1", "2"},
      symbol : {"BTC-USDT", "rb2410", "ETH-USDT"},
      exchange : {"OKX", "SHFE"} ]
        \ { r \in [orderid : {"1", "2"}, symbol : {"BTC-USDT", "rb2410", "ETH-USDT"},
                   exchange : {"OKX", "SHFE"}] :
                (r.symbol = "rb2410") # (r.exchange = "SHFE") }

\* the batches of cancel requests, the empty one included
RelayBatches ==
    UNION { [1..n -> RelayRequests] : n \in 0..MaxRequests }

\* a handler of the relay gateway starts
RelayReady == last.op = "idle" /\ steps < MaxRelaySteps

\* the relay gateway is asked to cancel a batch of orders
RelayCancelOrders(requests) ==
    /\ RelayReady
    /\ Commit(RpcGateway_cancel_orders(requests, Cur),
              [op |-> "relay_cancel_orders", requests |-> requests])

\* the relay gateway queries the server (on connect)
RelayQueryAll(contracts) ==
    /\ RelayReady
    /\ Commit(RpcGateway_query_all(contracts, Cur),
              [op |-> "relay_query_all", contracts |-> contracts])

\* a handler of the channel session starts
SessionReady == last.op = "idle" /\ steps < MaxSessionSteps

\* the socket of channel ch opens (WebsocketClient sets _ws) and on_connected runs
Connect(ch) ==
    /\ SessionReady
    /\ ~ws_open[ch]
    /\ Commit(on_connected(ch, [Cur EXCEPT !.open[ch] = TRUE,
                                           !.connects[ch] = @ + 1,
                                           !.pending[ch] = (ch # "public")]),
              [op |-> "connect", channel |-> ch])

\* the socket of channel ch drops (WebsocketClient clears _ws) and on_disconnected runs
Disconnect(ch) ==
    /\ SessionReady
    /\ ws_open[ch]
    /\ Commit(on_disconnected(ch, [Cur EXCEPT !.open[ch] = FALSE,
                                              !.pending[ch] = FALSE]),
              [op |-> "disconnect", channel |-> ch])

\* WebsocketClient reads the text frame raw off the socket of channel ch: unpack_data,
\* then on_packet; an answer to login comes once per login request
Receive(ch, raw) ==
    /\ SessionReady
    /\ ws_open[ch]
    /\ raw \in LoginAcks => login_pending[ch]
    /\ LET u == unpack_data(raw)
           s0 == IF raw \in LoginAcks THEN [Cur EXCEPT !.pending[ch] = FALSE] ELSE Cur
       IN  Commit(IF u.raised THEN [s0 EXCEPT !.raised = TRUE]
                  ELSE on_packet(ch, u.packet, s0),
                  [op |-> "receive", channel |-> ch, raw |-> raw, packet |-> u.packet])

\* OkxGateway.subscribe: the caller subscribes to the market data of an instrument
Subscribe(req) ==
    /\ SessionReady
    /\ Commit(PublicApi_subscribe(req, [Cur EXCEPT !.requested = Append(@, req)]),
              [op |-> "subscribe", req |-> req])

\* the event engine's timer fires dt seconds after the last handler
Timer(dt) ==
    /\ SessionReady
    /\ Commit(process_timer_event([Cur EXCEPT !.now = clock + dt]),
              [op |-> "timer", before |-> last_ping_timestamp])

EnvelopeCodes == {"0", "1"}

ItemCodes == {"0", "51000"}

(***************************************************************************)
(* SpecIds: every event that binds identifiers, over all client ids.       *)
(***************************************************************************)
NextIds ==
    \/ \E req \in OrderRequests({"LIMIT", "STOP"}, {"NONE"}) :
            req.direction = "LONG" /\ SendOrderBegin(req)
    \/ \E order \in submitting : SendOrderEnd(order)
    \/ \E data \in Frames(OrderItems({"", ExternalId} \cup SentIds("ws"),
                                     {"buy"}, {"filled"}, {"1"})
                          \cup ChildOrderItems({AlgoIdOf(ExternalId)}, {"1"}), MaxItems) :
            OrdersPush(data)
    \/ \E data \in Frames(AlgoItems({"", ExternalId} \cup SentIds("rest"), {"sell"},
                                    {"live"}, {"conditional"}), MaxItems) :
            OrdersAlgoPush(data)
    \/ \E id \in DOMAIN ws_requests, code \in {"0"},
          data \in Frames(AckItems(SentIds("ws"), ItemCodes), MaxItems) :
            SendOrderAck(id, code, data)
    \/ \E extra \in rest_requests, code \in {"0"},
          data \in Frames(StopAckItems(SentIds("rest"), ItemCodes), MaxItems) :
            SendStopOrderAck(extra, code, data)
    \/ Drain

SpecIds == Init /\ [][NextIds]_vars

(***************************************************************************)
(* Spec: submits, their acknowledgements and the order pushes of the       *)
(* private channel, over the order fields.                                 *)
(***************************************************************************)
Next ==
    \/ \E req \in OrderRequests({"LIMIT", "STOP"}, {"NONE", "OPEN"}) : SendOrderBegin(req)
    \/ \E order \in submitting : SendOrderEnd(order)
    \/ \E data \in Frames(OrderItems({ExternalId} \cup SentIds("ws"), {"buy", "sell"},
                                     {"live", "filled"}, {"0", "1"}), MaxItems) :
            OrdersPush(data)
    \/ \E id \in DOMAIN ws_requests, code \in EnvelopeCodes,
          data \in {<< >>} \cup Frames(AckItems(SentIds("ws"), ItemCodes), MaxItems) :
            SendOrderAck(id, code, data)
    \/ \E extra \in rest_requests, code \in EnvelopeCodes,
          data \in {<< >>} \cup Frames(StopAckItems(SentIds("rest"), ItemCodes), MaxItems) :
            SendStopOrderAck(extra, code, data)
    \/ Drain

Spec == Init /\ [][Next]_vars

(***************************************************************************)
(* SpecStop: stop orders, their acknowledgement and the pushes of the      *)
(* business channel.                                                       *)
(***************************************************************************)
NextStop ==
    \/ \E req \in OrderRequests({"STOP"}, {"NONE", "OPEN"}) :
            req.direction = "SHORT" /\ SendOrderBegin(req)
    \/ \E order \in submitting : SendOrderEnd(order)
    \/ \E data \in Frames(AlgoItems({"", ExternalId} \cup SentIds("rest"), {"sell"},
                                    {"live", "effective", "canceled", "order_failed"},
                                    {"conditional"})
                          \cup AlgoItems({""}, {"sell", "net"}, {"live"},
                                         {"conditional", "trigger"}), MaxItems) :
            OrdersAlgoPush(data)
    \/ \E extra \in rest_requests, code \in EnvelopeCodes,
          data \in {<< >>} \cup Frames(StopAckItems(SentIds("rest"), ItemCodes), MaxItems) :
            SendStopOrderAck(extra, code, data)
    \/ Drain

SpecStop == Init /\ [][NextStop]_vars

(***************************************************************************)
(* SpecCancel: cancels of single orders and of lists of orders, among the  *)
(* submits, acknowledgements and pushes that bind the ids they refer to.   *)
(***************************************************************************)
NextCancel ==
    \/ \E req \in OrderRequests({"LIMIT", "STOP"}, {"NONE"}) :
            req.direction = "LONG" /\ SendOrderBegin(req)
    \/ \E order \in submitting : SendOrderEnd(order)
    \/ \E data \in Frames(OrderItems({ExternalId} \cup SentIds("ws"), {"buy"}, {"live"},
                                     {"0"}), 1) :
            OrdersPush(data)
    \/ \E data \in Frames(AlgoItems({ExternalId} \cup SentIds("rest"), {"sell"}, {"live"},
                                    {"conditional"}), 1) :
            OrdersAlgoPush(data)
    \/ \E id \in DOMAIN ws_requests,
          data \in Frames(AckItems(SentIds("ws"), {"0"}), 1) :
            SendOrderAck(id, "0", data)
    \/ \E extra \in rest_requests,
          data \in Frames(StopAckItems(SentIds("rest"), {"0"}), 1) :
            SendStopOrderAck(extra, "0", data)
    \/ \E req \in CancelRequests(DOMAIN orders \cup SentIds("ws") \cup SentIds("rest")) :
            CancelOrder(req)
    \/ \E requests \in Batches(MaxBatch) : CancelOrders(requests)
    \/ Drain

SpecCancel == Init /\ [][NextCancel]_vars

(***************************************************************************)
(* SpecSession: the three channels connect, log in, drop and reconnect,    *)
(* the caller subscribes to market data, the timer fires.                  *)
(***************************************************************************)
NextSession ==
    \/ \E ch \in Channels : Connect(ch)
    \/ \E ch \in Channels : Disconnect(ch)
    \/ \E ch \in {"private", "business"}, raw \in LoginAcks : Receive(ch, raw)
    \/ \E req \in SubscribeRequests({"BTC-USDT", "ETH-USDT"}, {"OKX", "GLOBAL"}) :
            Subscribe(req)
    \/ \E dt \in Delays : Timer(dt)
    \/ Drain

SpecSession == Init /\ [][NextSession]_vars

(***************************************************************************)
(* SpecDispatch: the channels connect and receive frames of every class;   *)
(* the caller subscribes to an instrument, the timer fires.                *)
(***************************************************************************)
NextDispatch ==
    \/ \E ch \in Channels : Connect(ch)
    \/ \E ch \in Channels : \E raw \in FramesOf(ch) : Receive(ch, raw)
    \/ \E req \in SubscribeRequests({"BTC-USDT"}, {"OKX"}) : Subscribe(req)
    \/ Timer(PingInterval)
    \/ Drain

SpecDispatch == Init /\ [][NextDispatch]_vars

(***************************************************************************)
(* SpecSubmit: submits of every type on known and unknown instruments,     *)
(* contract queries that report leverage, order acknowledgements.          *)
(***************************************************************************)
NextSubmit ==
    \/ \E req \in SubmitRequests({"BTC-USDT", "BTC-USDT-SWAP", "DOGE-USDT"},
                                 {"LIMIT", "STOP", "RFQ"}) : SendOrderBegin(req)
    \/ \E order \in submitting : SendOrderEnd(order)
    \/ \E data \in Frames(InstrumentItems, 1) : QueryInstrument(data)
    \/ \E id \in DOMAIN ws_requests,
          data \in Frames(AckItems(SentIds("ws"), {"0"}), 1) :
            SendOrderAck(id, "0", data)
    \/ \E data \in Frames(OrderItems(SentIds("ws"), {"buy"}, {"filled"}, {"1"}), 1) :
            OrdersPush(data)
    \/ Drain

SpecSubmit == Init /\ [][NextSubmit]_vars

(***************************************************************************)
(* SpecHistory: history queries against every script of server answers.    *)
(***************************************************************************)
NextHistory ==
    \/ \E req \in HistoryRequests, script \in Scripts, zone \in {"fixed", "dst"} :
            QueryHistory(req, script, zone)
    \/ Drain

SpecHistory == Init /\ [][NextHistory]_vars

(***************************************************************************)
(* SpecMerge: the updates of one order arrive from the submit call, from    *)
(* the orders push of the private channel and, for the orders the vendor    *)
(* lists as pending, from the REST order query.                             *)
(***************************************************************************)
NextMerge ==
    \/ \E req \in OrderRequests({"LIMIT"}, {"NONE"}) :
            req.direction = "LONG" /\ SendOrderBegin(req)
    \/ \E order \in submitting : SendOrderEnd(order)
    \/ \E data \in Frames(OrderItems({ExternalId} \cup SentIds("ws"), {"buy"},
                                     {"live", "partially_filled", "filled", "canceled"},
                                     {"0"}), 1) :
            OrdersPush(data)
    \/ \E data \in {<< >>} \cup Frames(OrderItems({ExternalId} \cup SentIds("ws"), {"buy"},
                                                  {"live", "partially_filled"}, {"0"}), 1) :
            QueryOrder(data)
    \/ Drain

SpecMerge == Init /\ [][NextMerge]_vars

(***************************************************************************)
(* SpecStray: cancels of single orders and of short lists of orders, some   *)
(* of them for an order id the gateway never cached.                        *)
(***************************************************************************)
\* an order id of the caller that no submit and no push put into the order cache
StrayId == "stray"

\* the lists of one or two cancel requests for cached orders and for the stray id
StrayBatches == Frames(CancelRequests(DOMAIN orders \cup {StrayId}), 2)

NextStray ==
    \/ \E req \in OrderRequests({"LIMIT"}, {"NONE"}) : SendOrderBegin(req)
    \/ \E order \in submitting : SendOrderEnd(order)
    \/ \E req \in CancelRequests(DOMAIN orders \cup {StrayId}) : CancelOrder(req)
    \/ \E requests \in StrayBatches : CancelOrders(requests)
    \/ Drain

SpecStray == Init /\ [][NextStray]_vars

(***************************************************************************)
(* SpecRelay: the relay gateway queries the server and cancels batches.     *)
(***************************************************************************)
NextRelay ==
    \/ \E contracts \in ContractLists : RelayQueryAll(contracts)
    \/ \E requests \in RelayBatches : RelayCancelOrders(requests)
    \/ Drain

SpecRelay == Init /\ [][NextRelay]_vars

C2_DuplicateBindingRefused ==
    \A k \in 1..Len(binds) :
        LET b == binds[k]
        IN  (b.bound # NotFound /\ b.bound # b.r) => (raised /\ b.fwd_after = b.bound)

\* C3: the regular and the stop identifier spaces are independent: a bind of a local
\* id in one space leaves what that id resolves to in the other space as it was (that
\* a local id has at most one remote id at a time holds of any dict).
C3_SpacesIndependent ==
    \A k \in 1..Len(binds) :
        LET b == binds[k]
        IN  b.other # NotFound => b.other_after = b.other_before

(***************************************************************************)
(* The order cache and the acknowledgements (Spec).                        *)
(***************************************************************************)
\* the order events among what the last handler emitted, as indices into emitted
OrderEventsOf(out) == {k \in 1..Len(out) : out[k].kind = "order"}

TradeEventsOf(out) == {k \in 1..Len(out) : out[k].kind = "trade"}

\* C5: once an update for a local id carried a known offset, an update for that id that
\* omits the offset is stored and emitted with the offset known earlier.
C5_OffsetPreserved ==
    \A k \in OrderEventsOf(emitted) :
        LET e == emitted[k]
            id == e.data.orderid
        IN  (e.given = "NONE" /\ id \in DOMAIN known_offset)
                => /\ e.data.offset = known_offset[id]
                   /\ orders[id].offset = known_offset[id]

\* C6: an acknowledgement with a non-success envelope code and no per-order data marks
\* the order of its request rejected and emits a rejected order event for its local id,
\* on the private channel as on REST.
C6_RequestRejectionEmitted ==
    (last.op \in {"order", "order-algo"} /\ last.code # "0" /\ last.data = << >>)
        => /\ \E k \in OrderEventsOf(emitted) :
                    /\ emitted[k].data.orderid = last.order.orderid
                    /\ emitted[k].data.status = "REJECTED"
           /\ last.order.orderid \in DOMAIN orders
           /\ orders[last.order.orderid].status = "REJECTED"

\* the local id an acknowledgement item names
AckOrderId(d) == IF "clOrdId" \in DOMAIN d THEN d.clOrdId ELSE d.algoClOrdId

\* C7: each item of a submit acknowledgement with a non-success sub-code and a local id
\* present in the order cache gets a rejected order event for that id, carrying the
\* cached order; an item with a success sub-code gets no order event.
C7_ItemRejectionEmitted ==
    [][ last'.op \in {"order", "order-algo"} =>
            \A i \in 1..Len(last'.data) :
                LET d == last'.data[i]
                    id == AckOrderId(d)
                    evs == {k \in OrderEventsOf(emitted') : emitted'[k].item = i}
                IN  /\ (d.sCode # "0" /\ id \in DOMAIN orders) =>
                            \E k \in evs :
                                emitted'[k].data = [orders[id] EXCEPT !.status = "REJECTED"]
                    /\ d.sCode = "0" => evs = {} ]_vars

\* C8: every item of an orders push gets exactly one order event, emitted after the
\* item's identifier pair was bound and with the cached offset filled in, whatever the
\* items before it in the frame hold.
C8_OneOrderEventPerItem ==
    [][ last'.op = "orders" =>
            \A i \in 1..Len(last'.data) :
                LET id == last'.data[i].clOrdId
                    evs == {k \in OrderEventsOf(emitted') : emitted'[k].item = i}
                IN  /\ Cardinality(evs) = 1
                    /\ \E b \in 1..Len(binds') :
                            binds'[b].item = i /\ binds'[b].fwd_after = last'.data[i].ordId
                    /\ \A k \in evs :
                            /\ emitted'[k].data.orderid = id
                            /\ id \in DOMAIN orders =>
                                    emitted'[k].data.offset = orders[id].offset ]_vars

\* C9: an item of an orders push gets a trade event exactly when its fill size is not
\* zero, and the trade event follows the order event of the item and carries that
\* order's local id, direction and offset.
C9_TradeIffFill ==
    last.op = "orders" =>
        \A i \in 1..Len(last.data) :
            LET trs == {k \in TradeEventsOf(emitted) : emitted[k].item = i}
            IN  /\ (trs # {}) <=> (last.data[i].fillSz # "0")
                /\ \A k \in trs :
                        \E j \in OrderEventsOf(emitted) :
                            /\ j < k
                            /\ emitted[j].item = i
                            /\ emitted[k].data.orderid = emitted[j].data.orderid
                            /\ emitted[k].data.direction = emitted[j].data.direction
                            /\ emitted[k].data.offset = emitted[j].data.offset

(***************************************************************************)
(* Stop-order pushes of the business channel (SpecStop).                   *)
(***************************************************************************)
\* the cache key of the order a stop-order push item is about
StopOrderId(d) == IF d.algoClOrdId # "" THEN d.algoClOrdId ELSE d.algoId

\* the items of a stop-order push whose state is "effective", and the other ones
EffectiveItems(data) == {i \in 1..Len(data) : data[i].state = "effective"}

OtherItems(data) == (1..Len(data)) \ EffectiveItems(data)

\* C10: an item of a stop-order push whose state is "effective" produces no order event
\* and changes no entry of the order cache, and the items of the frame in another state
\* are processed all the same.
C10_EffectiveIgnored ==
    [][ last'.op = "orders-algo" =>
            LET data == last'.data
            IN  /\ \A k \in 1..Len(emitted') : emitted'[k].item \in OtherItems(data)
                /\ \A id \in DOMAIN orders' :
                        (id \notin DOMAIN orders \/ orders'[id] # orders[id]) =>
                            \E i \in OtherItems(data) : StopOrderId(data[i]) = id
                /\ ~raised' =>
                        \A i \in OtherItems(data) :
                            data[i].ordType = "conditional" =>
                                \E k \in OrderEventsOf(emitted') :
                                    /\ emitted'[k].item = i
                                    /\ emitted'[k].data.orderid = StopOrderId(data[i]) ]_vars

\* A frame whose first item is "effective" and names a cached order that is not in the
\* state the decoder would give it, followed by an item that got its order event.
C10_Witness ==
    /\ last.op = "orders-algo"
    /\ Len(last.data) = 2
    /\ last.data[1].state = "effective"
    /\ StopOrderId(last.data[1]) \in DOMAIN orders
    /\ orders[StopOrderId(last.data[1])].status # convert_status("effective")
    /\ StopOrderId(last.data[2]) # StopOrderId(last.data[1])
    /\ \E k \in OrderEventsOf(emitted) : emitted[k].item = 2

(***************************************************************************)
(* Cancels (SpecCancel).                                                   *)
(***************************************************************************)
\* the order ids this gateway generated
GeneratedIds == SentIds("ws") \cup SentIds("rest")

\* the order id an entry of a cancel request carries, in either field
EntryId(a) == IF "clOrdId" \in DOMAIN a THEN a.clOrdId ELSE a.ordId

\* whether the cancel just handled was one of a cached order of the given kind
CancelOf(op, stop) ==
    /\ op.op = "cancel_order"
    /\ op.req.orderid \in DOMAIN orders
    /\ (orders[op.req.orderid].type = "STOP") = stop

\* C11: the cancel request of a regular order carries clOrdId exactly when the order id
\* was generated by this gateway, ordId otherwise; so does a cancel issued after
\* send_order returned and before any push for the order.
C11_CancelKeyByOrigin ==
    CancelOf(last, FALSE) =>
        /\ Len(sent) = 1
        /\ sent[1].op = "cancel-order"
        /\ EntryId(sent[1].args[1]) = last.req.orderid
        /\ ("clOrdId" \in DOMAIN sent[1].args[1]) <=> (last.req.orderid \in GeneratedIds)

\* C12: a stop-order cancel sends a request exactly when the local id has a remote
\* binding, the request carries the algo id bound to it, and without a binding nothing
\* is sent and nothing changes.
C12_StopCancelByBinding ==
    [][ CancelOf(last', TRUE) =>
            LET l == last'.req.orderid
            IN  /\ (sent' # << >>) <=> (l \in DOMAIN bound_stop)
                /\ l \in DOMAIN bound_stop =>
                        /\ remote_local_algo_orderid_map[bound_stop[l]] = l
                        /\ sent' = << [ channel |-> "rest",
                                        op |-> "POST /api/v5/trade/cancel-algos", id |-> "",
                                        args |-> << [ instId |-> last'.req.symbol,
                                                      algoId |-> bound_stop[l] ] >> ] >>
                /\ l \notin DOMAIN bound_stop =>
                        /\ emitted' = << >> /\ ~raised'
                        /\ UNCHANGED << orders, reqid, ws_requests, rest_requests >>
                        /\ UNCHANGED idVars ]_vars

\* A stop order submitted by the gateway and bound by its acknowledgement is cancelled.
C12_Witness ==
    /\ CancelOf(last, TRUE)
    /\ last.req.orderid \in SentIds("rest")
    /\ sent # << >>
    /\ sent[1].args[1].algoId = AlgoIdOf(last.req.orderid)

\* C13: a stop-order cancel for a local id without a remote binding produces a log event.
C13_UnboundCancelLogged ==
    (CancelOf(last, TRUE) /\ last.req.orderid \notin DOMAIN local_remote_orderid_map)
        => \E k \in 1..Len(emitted) : emitted[k].kind = "log"

RECURSIVE Flatten(_)
\* the concatenation of a sequence of sequences
Flatten(seqs) == IF seqs = << >> THEN << >> ELSE Head(seqs) \o Flatten(Tail(seqs))

\* the requests of a list that are for regular orders of the cache
RegularRequests(requests) ==
    SelectSeq(requests, LAMBDA r : orders[r.orderid].type # "STOP")

BatchMessages(out) == SelectSeq(out, LAMBDA m : m.op = "batch-cancel-orders")

\* C14: a batch cancel of n regular-order requests sends ceil(n/15) messages, each of at
\* most 15 entries and all but the last of exactly 15, whose entries in send order are
\* the requests in input order, each message with a fresh request id.
C14_BatchChunks ==
    [][ (last'.op = "cancel_orders" /\ ~raised') =>
            LET regular == RegularRequests(last'.requests)
                msgs == BatchMessages(sent')
                entries == Flatten([k \in 1..Len(msgs) |-> msgs[k].args])
            IN  /\ Len(msgs) = (Len(regular) + 14) \div 15
                /\ \A k \in 1..Len(msgs) :
                        /\ Len(msgs[k].args) <= 15
                        /\ k < Len(msgs) => Len(msgs[k].args) = 15
                        /\ msgs[k].id = ToString(reqid + k)
                /\ reqid' = reqid + Len(msgs)
                /\ Len(entries) = Len(regular)
                /\ \A i \in 1..Len(entries) :
                        /\ EntryId(entries[i]) = regular[i].orderid
                        /\ entries[i].instId = regular[i].symbol ]_vars

\* 37 requests for regular orders, not all for the same order, went out as 15, 15 and 7.
C14_Witness ==
    /\ last.op = "cancel_orders"
    /\ Len(RegularRequests(last.requests)) = 37
    /\ Len(BatchMessages(sent)) = 3
    /\ Len(BatchMessages(sent)[1].args) = 15
    /\ Len(BatchMessages(sent)[2].args) = 15
    /\ Len(BatchMessages(sent)[3].args) = 7
    /\ EntryId(BatchMessages(sent)[1].args[1]) # EntryId(BatchMessages(sent)[1].args[2])

\* the frames of the last handler on channel ch with operation op
SentOn(ch, op) == SelectSeq(sent, LAMBDA m : m.channel = ch /\ m.op = op)

\* the names of the topics a subscribe frame lists
TopicsOf(m) == [i \in 1..Len(m.args) |-> m.args[i].channel]

\* the last handler took a login acknowledgement with code "0" on channel ch
LoginAcknowledged(ch) ==
    /\ last.op = "receive"
    /\ last.channel = ch
    /\ "event" \in DOMAIN last.packet
    /\ last.packet.event = "login"
    /\ last.packet.code = "0"

\* C15: a step of the private channel sends exactly one subscribe frame, listing
\* orders, account and positions, when it takes a successful login acknowledgement,
\* on the first connection and on every later one; a step of the business channel
\* exactly one listing orders-algo; every other step (the connect itself, a failed
\* login, a disconnect) sends no subscribe frame on these channels.
C15_SubscribeOnLogin ==
    /\ IF LoginAcknowledged("private")
       THEN /\ Len(SentOn("private", "subscribe")) = 1
            /\ TopicsOf(SentOn("private", "subscribe")[1])
                    = << "orders", "account", "positions" >>
       ELSE SentOn("private", "subscribe") = << >>
    /\ IF LoginAcknowledged("business")
       THEN /\ Len(SentOn("business", "subscribe")) = 1
            /\ TopicsOf(SentOn("business", "subscribe")[1]) = << "orders-algo" >>
       ELSE SentOn("business", "subscribe") = << >>

\* the private channel logged in on its second connection and subscribed again
C15_Witness ==
    /\ LoginAcknowledged("private")
    /\ ws_connects["private"] = 2
    /\ Len(SentOn("private", "subscribe")) = 1

\* the symbols the caller has subscribed to so far
RequestedSymbols == { requested[i].symbol : i \in 1..Len(requested) }

\* the instruments the subscribe frames of the last handler name, frame by frame
SubscribedInstruments ==
    [i \in 1..Len(SentOn("public", "subscribe")) |->
        SentOn("public", "subscribe")[i].args[1].instId]

\* C16: when the public channel connects, the subscribe frames sent name each symbol
\* the caller has ever subscribed to exactly once, and no other symbol.
C16_ResubscribeOncePerSymbol ==
    (last.op = "connect" /\ last.channel = "public") =>
        /\ { SubscribedInstruments[i] : i \in DOMAIN SubscribedInstruments }
                = RequestedSymbols
        /\ \A i, j \in DOMAIN SubscribedInstruments :
                SubscribedInstruments[i] = SubscribedInstruments[j] => i = j

\* the channels the last handler sent a ping on, in the order sent
Pinged == [i \in 1..Len(SelectSeq(sent, LAMBDA m : m.op = "ping")) |->
              SelectSeq(sent, LAMBDA m : m.op = "ping")[i].channel]

\* C17 as stated: a timer tick 10 seconds or more after the last round pings each of
\* the three channels and sets the last-ping time to the tick time; another tick sends
\* nothing and leaves the last-ping time alone.
C17_Original ==
    last.op = "timer" =>
        IF clock - last.before >= 10
        THEN /\ Pinged = << "public", "private", "business" >>
             /\ last_ping_timestamp = clock
        ELSE /\ sent = << >>
             /\ last_ping_timestamp = last.before

\* C17 (as amended): a timer tick 10 seconds or more after the last round pings each
\* channel that has a socket, once, and no other, and sets the last-ping time to the
\* tick time; another tick sends nothing and leaves the last-ping time alone. So two
\* rounds are 10 seconds apart or more.
C17_PingRound ==
    last.op = "timer" =>
        IF clock - last.before >= 10
        THEN /\ Pinged = SelectSeq(<< "public", "private", "business" >>,
                                   LAMBDA ch : ws_open[ch])
             /\ sent = SelectSeq(sent, LAMBDA m : m.op = "ping")
             /\ last_ping_timestamp = clock
        ELSE /\ sent = << >>
             /\ last_ping_timestamp = last.before

\* a second round, 10 seconds after the first, with the private channel alone open
C17_Witness ==
    /\ last.op = "timer"
    /\ last.before > 0
    /\ clock - last.before >= 10
    /\ Pinged = << "private" >>
    /\ last_ping_timestamp = clock


\* the gateway state and what the last handler produced
Observed ==
    [Cur EXCEPT !.out = emitted, !.sent = sent, !.binds = binds, !.raised = raised,
                !.returned = returned]

\* what a handler that starts now leaves when it takes packet on channel ch
Handled(ch, packet) == [on_packet(ch, packet, Cur) EXCEPT !.pending = login_pending']

\* C18: on every channel the text frame "pong" leaves the state, the last-ping time
\* included, and the events of the frame {"op": "ping"} taken in its place.
C18_PongAsPingAck ==
    [][ (last'.op = "receive" /\ last'.raw.text = "pong") =>
            /\ Observed' = Handled(last'.channel, [op |-> "ping"])
            /\ ~raised'
            /\ last_ping_timestamp' = last_ping_timestamp ]_vars

\* a pong taken on the private channel after a ping round
C18_Witness ==
    /\ last.op = "receive"
    /\ last.raw.text = "pong"
    /\ last.channel = "private"
    /\ last_ping_timestamp > 0
    /\ ~raised

\* the packet without the fields that rank below the one that classifies it
Strip(packet) ==
    IF "event" \in DOMAIN packet
    THEN [k \in (DOMAIN packet) \ {"op", "arg"} |-> packet[k]]
    ELSE IF "op" \in DOMAIN packet
    THEN [k \in (DOMAIN packet) \ {"arg"} |-> packet[k]]
    ELSE packet

\* C19: a frame with an event field is handled as the same frame without its op field
\* and channel argument, a frame with an op field and no event field as the same frame
\* without its channel argument: the field of lower rank never decides the handler.
C19_ClassifiedByPriority ==
    [][ last'.op = "receive" =>
            Observed' = Handled(last'.channel, Strip(last'.packet)) ]_vars

\* an error event that also carries the op and the channel argument of an order reply
\* ended in the log of on_api_error, with no identifier bound
C19_Witness ==
    /\ last.op = "receive"
    /\ last.channel = "private"
    /\ {"event", "op", "arg"} \subseteq DOMAIN last.packet
    /\ emitted = << LogEvent("private request failed", 0) >>
    /\ binds = << >>

\* the name a frame goes by
FrameName(packet) ==
    IF "event" \in DOMAIN packet THEN packet.event
    ELSE IF "op" \in DOMAIN packet THEN packet.op
    ELSE packet.arg.channel

\* the channel handles frames of that name
HasEntry(ch, packet) ==
    IF ch = "public" /\ "event" \in DOMAIN packet
    THEN packet.event \in {"subscribe", "error"}
    ELSE FrameName(packet) \in Callbacks(ch)

\* C20: a frame whose name has no entry in the handler table of its channel produces
\* no event, no frame and no error, and leaves the identifier maps, the order cache
\* and the subscription cache as they were.
C20_UnknownDropped ==
    [][ (last'.op = "receive" /\ ~HasEntry(last'.channel, last'.packet)) =>
            /\ emitted' = << >>
            /\ sent' = << >>
            /\ ~raised'
            /\ UNCHANGED << local_remote_orderid_map, remote_local_algo_orderid_map,
                            local_orderids, orders, subscribed, ticks >> ]_vars

\* the reply to a batch cancel, for which the private channel has no handler, dropped
\* while the maps hold a binding
C20_Witness ==
    /\ last.op = "receive"
    /\ last.channel = "private"
    /\ DOMAIN last.packet \cap {"event", "op"} = {"op"}
    /\ last.packet.op = "batch-cancel-orders"
    /\ DOMAIN local_remote_orderid_map # {}
    /\ emitted = << >>
    /\ ~raised


\* the request of the last step is one the gateway accepts: supported type, known contract
Accepted(req) ==
    /\ req.type \in {"LIMIT", "MARKET", "STOP", "FOK", "FAK"}
    /\ req.symbol \in DOMAIN symbol_contract_map

Supported(req) == req.type \in {"LIMIT", "MARKET", "STOP", "FOK", "FAK"}

\* the last step handed exactly one request to the transport: a stop-order POST on REST
\* for a stop request, an order frame on the private channel for any other
CarriedByType(req) ==
    /\ Len(sent) = 1
    /\ IF req.type = "STOP"
       THEN sent[1].channel = "rest" /\ sent[1].op = "POST /api/v5/trade/order-algo"
       ELSE sent[1].channel = "private" /\ sent[1].op = "order"

\* C22 as stated: every request of a supported type is carried by exactly one channel,
\* REST for a stop request, the private channel for any other.
C22_Original ==
    (last.op = "send_order_begin" /\ Supported(last.req)) => CarriedByType(last.req)

\* C22 (as amended): a request of a supported type on a known contract is carried by
\* exactly one channel, REST for a stop request, the private channel for any other; on
\* an unknown contract it is carried by neither and a log event says so.
C22_RoutedByType ==
    (last.op = "send_order_begin" /\ Supported(last.req)) =>
        IF last.req.symbol \in DOMAIN symbol_contract_map
        THEN CarriedByType(last.req)
        ELSE /\ sent = << >>
             /\ Len(emitted) = 1
             /\ emitted[1].kind = "log"
             /\ returned = ""

\* a stop request on a known contract went out on REST
C22_Witness ==
    /\ last.op = "send_order_begin"
    /\ last.req.type = "STOP"
    /\ last.req.symbol \in DOMAIN symbol_contract_map
    /\ Len(sent) = 1
    /\ sent[1].channel = "rest"

\* the margin mode a payload must carry for an instrument, by the tables of the moment
ExpectedMode(symbol) ==
    IF symbol_contract_map[symbol].product # "SPOT" THEN "cross"
    ELSE IF symbol \in support_margin_spot_symbols THEN "cross"
    ELSE "cash"

\* C23: the payload of every submitted order, regular or stop, carries cash for a spot
\* instrument outside the margin-capable set, cross for one inside it and cross for
\* every other instrument; and a symbol enters the set only in a contract query that
\* reports it as a spot instrument with leverage above 1.
C23_MarginMode ==
    /\ [](last.op = "send_order_begin" =>
            \A k \in 1..Len(sent) :
                sent[k].args[1].tdMode = ExpectedMode(last.req.symbol))
    /\ [][ \A symbol \in support_margin_spot_symbols' \ support_margin_spot_symbols :
                /\ last'.op = "query_instrument"
                /\ \E k \in 1..Len(last'.data) :
                        /\ last'.data[k].instId = symbol
                        /\ last'.data[k].instType = "SPOT"
                        /\ last'.data[k].lever \notin {"", "0", "1"} ]_vars

\* a stop order on a spot instrument went out with cross margin after a contract query
\* reported leverage for it
C23_Witness ==
    /\ last.op = "send_order_begin"
    /\ last.req.symbol = "BTC-USDT"
    /\ last.req.type = "STOP"
    /\ "BTC-USDT" \in support_margin_spot_symbols
    /\ Len(sent) = 1
    /\ sent[1].args[1].tdMode = "cross"

\* C25: each vendor value of the direction and order-type tables comes back from the
\* reverse table applied to its translation, and so does the product type of every
\* instrument a contract query decoded into the contract table.
C25_TablesRoundTrip ==
    /\ \A v \in DOMAIN DIRECTION_OKX2VT : DIRECTION_VT2OKX[DIRECTION_OKX2VT[v]] = v
    /\ \A v \in DOMAIN ORDERTYPE_OKX2VT : ORDERTYPE_VT2OKX[ORDERTYPE_OKX2VT[v]] = v
    /\ (last.op = "query_instrument" /\ ~raised) =>
            \A k \in 1..Len(last.data) :
                PRODUCT_VT2OKX[symbol_contract_map[last.data[k].instId].product]
                    = last.data[k].instType

\* C30: a submit of an unsupported type raises nothing, leaves one log event, returns
\* no id and hands nothing to any channel.
C30_UnsupportedTypeLogged ==
    (last.op = "send_order_begin" /\ ~Supported(last.req)) =>
        /\ ~raised
        /\ Len(emitted) = 1
        /\ emitted[1].kind = "log"
        /\ returned = ""
        /\ sent = << >>


\* the order type, direction and state of an item of an order update are all known to
\* the lookup tables (a stop order has the one order type "conditional")
KnownEnums(d, stop) ==
    /\ IF stop THEN d.ordType = "conditional" ELSE d.ordType \in DOMAIN ORDERTYPE_OKX2VT
    /\ d.side \in DOMAIN DIRECTION_OKX2VT
    /\ d.state \in DOMAIN STATUS_OKX2VT

PageRequests ==
    [k \in 1..Len(SentOn("rest", "GET /api/v5/market/candles")) |->
        SentOn("rest", "GET /api/v5/market/candles")[k].args[1]]

\* the answer to the k-th page request of the last query
Answer(k) == request(last.script, k)

\* the answer is a page of bars: a success status and bars in it
IsPage(resp) == resp.status_code \in 200..299 /\ resp.data # << >>

\* the bars received in answer to the page requests: << request, row >>
Rows ==
    { p \in (1..Len(PageRequests)) \X (1..2) :
        IsPage(Answer(p[1])) /\ p[2] <= Len(Answer(p[1]).data) }

RowOf(p) == Answer(p[1]).data[p[2]]

\* the row received last among those of bar time t
LastRow(t) ==
    CHOOSE p \in Rows :
        /\ RowOf(p).ts = t
        /\ \A q \in Rows : RowOf(q).ts = t => (q[1] < p[1] \/ (q[1] = p[1] /\ q[2] <= p[2]))

\* the bar times received
ReceivedTimes == { RowOf(p).ts : p \in Rows }

\* C26: the list a history query returns is sorted strictly ascending by bar time and
\* holds exactly one bar for each distinct timestamp received, the one received last.
C26_SortedDeduplicated ==
    last.op = "query_history" =>
        /\ \A a, b \in 1..Len(last.history) :
                a < b => last.history[a].datetime < last.history[b].datetime
        /\ Len(last.history) = Cardinality(ReceivedTimes)
        /\ \A t \in ReceivedTimes :
                \E a \in 1..Len(last.history) :
                    /\ last.history[a].datetime = parse_timestamp(t, last.zone)
                    /\ last.history[a].close_price = RowOf(LastRow(t)).c

\* the oldest and the newest bar time of the page that answered request k
Oldest(k) == CHOOSE t \in {Answer(k).data[j].ts : j \in 1..Len(Answer(k).data)} :
                \A j \in 1..Len(Answer(k).data) : t <= Answer(k).data[j].ts

Newest(k) == CHOOSE t \in {Answer(k).data[j].ts : j \in 1..Len(Answer(k).data)} :
                \A j \in 1..Len(Answer(k).data) : t >= Answer(k).data[j].ts

\* C27 as stated: the request after a page has the oldest time of the page as its
\* before cursor and the newest as its after cursor.
C27_Original ==
    last.op = "query_history" =>
        \A k \in 1..(Len(PageRequests) - 1) :
            /\ PageRequests[k + 1].before = Oldest(k)
            /\ PageRequests[k + 1].after = Newest(k)

\* C27 (as amended): the request after a page has the oldest time of the page as its
\* after cursor; the first request has no after cursor; the before cursor of every
\* request is the start of the query less one unit, whatever the pages held.
C27_Cursors ==
    last.op = "query_history" =>
        /\ \A k \in 1..Len(PageRequests) : PageRequests[k].before = last.req.start - 1
        /\ Len(PageRequests) > 0 => "after" \notin DOMAIN PageRequests[1]
        /\ \A k \in 1..(Len(PageRequests) - 1) :
                /\ "after" \in DOMAIN PageRequests[k + 1]
                /\ PageRequests[k + 1].after = Oldest(k)

\* a query of three requests whose first page held two bars
C27_Witness ==
    /\ last.op = "query_history"
    /\ Len(PageRequests) = 3
    /\ Len(Answer(1).data) = 2
    /\ PageRequests[2].after = Answer(1).data[2].ts
    /\ PageRequests[2].after < Answer(1).data[1].ts

\* C28: a history query ends after at most 15 page requests; every request but the last
\* was answered by a page of bars, so none follows an answer with a non-success status
\* or without bars; the query raises nothing and returns the bars of the pages received
\* before that answer.
C28_BoundedPagination ==
    last.op = "query_history" =>
        /\ Len(PageRequests) <= 15
        /\ Len(PageRequests) >= 1
        /\ \A k \in 1..(Len(PageRequests) - 1) : IsPage(Answer(k))
        /\ Len(PageRequests) < 15 => ~IsPage(Answer(Len(PageRequests)))
        /\ ~raised
        /\ { last.history[a].datetime : a \in 1..Len(last.history) }
                = { parse_timestamp(t, last.zone) : t \in ReceivedTimes }

\* the server failed on the third request and the query returned the bars of two pages
C28_Witness ==
    /\ last.op = "query_history"
    /\ Len(PageRequests) = 3
    /\ Answer(3).status_code = 500
    /\ Len(last.history) >= 2
    /\ ~raised


\* the downstream gateway the relay gateway holds as the owner of the symbol of req
\* ("" for a symbol no gateway listed)
OwnerOf(req) ==
    IF vt_symbol(req) \in DOMAIN symbol_gateway_map
    THEN symbol_gateway_map[vt_symbol(req)] ELSE ""

\* the downstream calls of the last batch cancellation, in the order made
CancelCalls == SentOn("rpc", "cancel_orders")

\* C29: batch cancellation in the relay gateway makes exactly one downstream call for each
\* owner that has a request in the batch and none for any other; the call for an owner
\* carries exactly the requests of that owner, each once, in their input order, so every
\* input request is forwarded exactly once.
C29_GroupedByGateway ==
    last.op = "relay_cancel_orders" =>
        /\ \A k \in 1..Len(CancelCalls) :
                /\ CancelCalls[k].args[1] # << >>
                /\ CancelCalls[k].args[1]
                        = SelectSeq(last.requests,
                                    LAMBDA r : OwnerOf(r) = CancelCalls[k].args[2])
        /\ \A j, k \in 1..Len(CancelCalls) :
                j # k => CancelCalls[j].args[2] # CancelCalls[k].args[2]
        /\ { CancelCalls[k].args[2] : k \in 1..Len(CancelCalls) }
                = { OwnerOf(last.requests[i]) : i \in 1..Len(last.requests) }

\* a batch of three whose first and last request belong to one gateway and whose second
\* belongs to another: two calls, the first carrying two requests
C29_Witness ==
    /\ last.op = "relay_cancel_orders"
    /\ Len(last.requests) = 3
    /\ OwnerOf(last.requests[1]) = "OKX"
    /\ OwnerOf(last.requests[2]) = "SIM"
    /\ OwnerOf(last.requests[3]) = "OKX"
    /\ Len(CancelCalls) = 2
    /\ CancelCalls[1].args = << << last.requests[1], last.requests[3] >>, "OKX" >>
    /\ CancelCalls[2].args = << << last.requests[2] >>, "SIM" >>


(***************************************************************************)
(* The submitting thread against the channel threads.                      *)
(***************************************************************************)
\* C31: whenever the acknowledgement of a submit is processed, the submit call has
\* already handed the order to the order cache; the local id of a rejected first item is
\* found in the cache; and the submit call never emits its submitting event for a local
\* id whose cached order is already rejected.
C31_CachedBeforeAck ==
    /\ [](last.op \in {"order", "order-algo"} =>
            /\ last.order \notin submitting
            /\ (last.data # << >> /\ last.data[1].sCode # "0") =>
                    AckOrderId(last.data[1]) \in DOMAIN orders)
    /\ [][ last'.op = "send_order_end" =>
                ~ /\ last'.order.orderid \in DOMAIN orders
                  /\ orders[last'.order.orderid].status = "REJECTED" ]_vars


\* C32: an orders push whose items all carry an algo id (the child orders of triggered
\* stop orders) gets an order event for every item and leaves every stop order of the
\* order cache as it was, whether or not the algo id is bound to a local id.
C32_ChildTrackedApart ==
    [][ (last'.op = "orders" /\ \A i \in 1..Len(last'.data) : last'.data[i].algoId # "") =>
            /\ \A i \in 1..Len(last'.data) :
                    \E k \in OrderEventsOf(emitted') : emitted'[k].item = i
            /\ \A id \in DOMAIN orders :
                    orders[id].type = "STOP" => orders'[id] = orders[id] ]_vars


(***************************************************************************)
(* The order cache under updates from several sources (SpecMerge).         *)
(***************************************************************************)
\* the statuses that end the life of an order
TerminalStatuses == {"ALLTRADED", "CANCELLED", "REJECTED"}

\* C33: the status cached for a local id never goes from a terminal status back to a
\* status that is not terminal, whichever source the next update comes from.
C33_TerminalIsFinal ==
    [][ \A id \in DOMAIN orders :
            orders[id].status \in TerminalStatuses =>
                /\ id \in DOMAIN orders'
                /\ orders'[id].status \in TerminalStatuses ]_vars


\* the identity of the trade a trade event reports
TradeIdentity(e) == << e.data.orderid, e.data.tradeid >>

\* C34: the updates of an orders push never make the gateway emit two trade events of
\* one identity (order id, trade id), also when a later update of an order repeats the
\* fill fields of an earlier one.
C34_TradeEmittedOnce ==
    last.op = "orders" =>
        \A j, k \in TradeEventsOf(emitted) :
            j # k => TradeIdentity(emitted[j]) # TradeIdentity(emitted[k])

\* C35: the key under which an update of a regular order is cached belongs to one
\* exchange-assigned id: the id of every later order stored under that key is the one
\* the key was first used for, an empty client order id included.
C35_DistinctCacheKeys ==
    last.op = "orders" =>
        \A k \in OrderEventsOf(emitted) :
            LET d == last.data[emitted[k].item]
                key == emitted[k].data.orderid
            IN  d.algoId = "" =>
                    /\ key \in DOMAIN orders
                    /\ key \in DOMAIN bound_regular
                    /\ bound_regular[key] = d.ordId


\* the requests of the last cancel call, as a list
CancelledRequests(op) == IF op.op = "cancel_order" THEN << op.req >> ELSE op.requests

\* the order ids the cancel frames handed to the transport name
CancelledIds(out) ==
    UNION { UNION { { out[k].args[i][f] : f \in (DOMAIN out[k].args[i]) \ {"instId"} } :
                        i \in 1..Len(out[k].args) } : k \in 1..Len(out) }

\* C36: a cancel call that names an order id missing from the order cache raises
\* nothing, leaves the order cache and the identifier maps as they were, and, for a
\* list, still routes the requests for the cached orders of the list.
C36_UnknownCancelHarmless ==
    [][ ( /\ last'.op \in {"cancel_order", "cancel_orders"}
          /\ \E i \in 1..Len(CancelledRequests(last')) :
                CancelledRequests(last')[i].orderid \notin DOMAIN orders ) =>
            /\ ~raised'
            /\ orders' = orders
            /\ UNCHANGED << local_orderids, local_remote_orderid_map,
                            remote_local_algo_orderid_map >>
            /\ \A i \in 1..Len(CancelledRequests(last')) :
                    CancelledRequests(last')[i].orderid \in DOMAIN orders =>
                        CancelledRequests(last')[i].orderid \in CancelledIds(sent') ]_vars

====
